---- MODULE Spec2Model ----
(***************************************************************************)
(* Verification model of the kasoutuuka-bot trading agent.                 *)
(*                                                                         *)
(* The module holds several state machines, one per concern, over one set  *)
(* of variables.  Each specification drives its own variables and leaves   *)
(* the others at their idle values:                                        *)
(*   SpecExit  - src/src/exit_engine.py evaluate() on positions created by *)
(*               run_loop (entry and adoption paths)                       *)
(*   SpecEdge  - EdgeSignalEngine._metrics_loop against a snapshot reader  *)
(*   SpecSync  - run_loop._reconcile_with_exchange                         *)
(*   SpecPO    - the post-only entry order, its timeout and the watchdog   *)
(*   SpecLoop  - the run_loop decision tick (dedup marker, guard, orders)  *)
(*   SpecClose - the exit section of run_loop (close orders, SL grace)      *)
(*   SpecSave  - save_state / load_state with the process stopping anywhere *)
(*   SpecFetch - the kline retry loop and the fill watch of run_loop        *)
(*   SpecFlow  - FlowBuckets and CVDTracker fed by _metrics_loop            *)
(*   SpecFeed  - the same with the trade stream and _metrics_loop alone     *)
(*   SpecCool  - the dynamic cooldown of run_loop                           *)
(*   SpecGuard - the entry guards and classify_regime                       *)
(*   SpecRegime - classify_regime called again on the ctx it wrote to        *)
(*   SpecObi   - order_book_imbalance on a book snapshot                     *)
(*   SpecOfi   - FlowBuckets.ofi_zscore on a bucket list                     *)
(*   SpecGate  - the cooldown section of run_loop and its overrides          *)
(*   SpecVotes - the vote count of _metrics_loop over its rounds             *)
(*   SpecBaseline - the entry guards on the trade lists of the flow baseline *)
(*   SpecNet   - the net side: opposite-entry guard, flip, watchdog           *)
(*   SpecGrace - the exit section on candles that keep breaching the stop    *)
(*   SpecHour  - the neutral-regime trade limit and its reset                *)
(***************************************************************************)
EXTENDS Integers, Sequences, FiniteSets, TLC

VARIABLES
    \* ---- exit engine (SpecExit) ----
    xpos,       \* the open position under evaluation, or NoPos
    xst,        \* state["exit_engine"]: flow_prev per side and peak R of the position
    xnow,       \* wall clock, minutes
    xenv,       \* the slowly changing market context (ATR, book, OFI, regime)
    xctx,       \* the inputs of the last evaluate() call (ctx, book, trades, edge)
    xres,       \* the value returned by the last evaluate() call, or NoRes
    \* ---- edge engine (SpecEdge) ----
    emetrics,   \* EdgeSignalEngine._metrics, the dict readers copy
    elock,      \* EdgeSignalEngine._lock: "free", "metrics" or "reader"
    mpc,        \* position of the _metrics_loop thread
    mgen,       \* number of recomputes started by _metrics_loop
    rpc,        \* position of the reader inside get_metrics_snapshot
    rsnap,      \* the mapping get_metrics_snapshot returned last, or NoSnap
    epublished, \* history: every dict assigned to _metrics under the lock
    \* ---- reconciliation with the exchange (SpecSync) ----
    spos,       \* state["positions"]: sequence of [side, qty]
    sqex,       \* net position the exchange reports (signed, in lots)
    sflat,      \* S.auto_flatten_on_desync
    srec,       \* what the last _reconcile_with_exchange call did, or NoRec
    \* ---- one post-only entry order (SpecPO) ----
    ppos,       \* state["positions"]: sequence of [side, qty]
    oex,        \* the order at the exchange: [status, cum]
    ppc,        \* run_loop: "idle", "poll" (inside the fill-watch loop) or "done"
    ppolls,     \* polls of the fill-watch loop so far
    pwatch,     \* the order is in state["watch_orders"]
    page,       \* housekeeping rounds since the order went on the watch list
    pdrop,      \* why the watchdog dropped the order: "none", "fill", "cancel", "ttl"
    psynced,    \* a reconciliation ran after the bot stopped tracking the finished order
    \* ---- the candle loop (SpecLoop) ----
    lcfg,       \* S: [allow_countertrend, use_postonly_entries]
    lcandle,    \* start of the latest closed candle the exchange returns
    lhandled,   \* last_handled_kline (0: None)
    ldisk,      \* state.json's last_kline_start (0: None)
    lpos,       \* state["positions"]
    llast_entry,\* state["last_entry_time"] (0: None)
    lwatch,     \* state["watch_orders"] is not empty
    lpc,        \* where run_loop is inside its iteration
    lcur,       \* locals of the running iteration
    lguard,     \* last Entry Guard verdict per side in the running or last tick
    lorders,    \* opening orders submitted in the running or last tick
    lhist,      \* history per candle: opening orders submitted, handling finished
    liter,      \* what the last step of the loop was
    \* ---- the exit section of run_loop (SpecClose) ----
    cpositions,  \* state["positions"]: sequence of position dicts
    csl_grace,   \* state["sl_grace"]: grace-until per position key (0: no entry)
    cnow,        \* time.time(), seconds
    cidx,        \* index of the position the for loop is at (0: outside the section)
    cstage,      \* where the loop body is: engine, checks or idle
    cstill_open, \* still_open
    cclosed,     \* closed
    ccandle,     \* high, low and close of the candle of this tick
    clast,       \* history: what the loop body did for the position it handled last in this tick
    cbodies,     \* passes of the loop body so far
    cnextkey,    \* key of the next position to open
    \* ---- persistence of the state dict (SpecSave) ----
    vstate,      \* the state dict in memory: [last_kline_start (0: None), npos]
    vfile,       \* state.json
    vtmp,        \* state.json.tmp
    vpc,         \* where the process is: run, inside save_state (open, dump, replace), down or broken
    vprev,       \* history: what state.json held when the running save_state began
    vsaving,     \* the state dict the running save_state was called with
    vlast,       \* history: the last save_state call: why it was made and whether it returned
    vsaves,      \* save_state calls so far
    \* ---- the waiting loops of run_loop (SpecFetch) ----
    kpc,         \* where run_loop is: top, fetch (kline retry loop), housekeep or po_watch (fill watch)
    kbackoff,    \* backoff, seconds
    kslept,      \* history: length of the last time.sleep(backoff) (0: none yet)
    kpolls,      \* rounds of the fill watch so far
    kfilled,     \* cumExecQty of the watched order at the exchange
    kattempts,   \* history: parity of the number of get_klines_any calls
    \* ---- order flow of the edge engine (SpecFlow) ----
    wtrades,     \* BybitWS.trades, the tape: sequence of [ts, side, qty]
    fbuckets,    \* FlowBuckets.buckets: sequence of [t, b, s]
    fcvd,        \* the CVDTracker: value, seq_mkt_buys, seq_mkt_sells, last_sec (-1: None)
    fcall,       \* history: what the last on_trade call was given
    frounds,     \* rounds of _metrics_loop and direct calls so far
    \* ---- dynamic cooldown (SpecCool) ----
    dlast,       \* the cooldown computed for the newest candle
    dprev,       \* the cooldown computed for the candle before
    \* ---- entry guards (SpecGuard) ----
    gcall,       \* the last guard call: side, trade list, book and ctx
    gres,        \* what it returned: ok, why and the relax tags of the message
    \* ---- classify_regime on one ctx (SpecRegime) ----
    rctx,        \* the ctx dictionary, with the keys classify_regime writes
    rret,        \* what each classify_regime call returned, with the ctx it left
    \* ---- order book imbalance (SpecObi) ----
    obook,       \* the book snapshot: [bids, asks], lists of <<price, size>>
    ores,        \* the levels and the result of the last order_book_imbalance call, or NoObi
    \* ---- OFI z-score (SpecOfi) ----
    zbuckets,    \* FlowBuckets.buckets: sequence of [t, b, s]
    zres,        \* the value of the last ofi_zscore call, or NoZ
    \* ---- cooldown gate (SpecGate) ----
    kin,         \* what the tick finds: metrics snapshot, ADX, signal, last entry, cooldown
    kres,        \* what the cooldown section of the tick did, or NoGate
    \* ---- vote count (SpecVotes) ----
    vmetrics,    \* EdgeSignalEngine._metrics as the last round published it
    vrounds,     \* rounds of _metrics_loop so far
    \* ---- The net side of the account (SpecNet) ----
    ncfg,        \* allow_atomic_flip and use_postonly_entries of config.S
    npos,        \* state["positions"]: side and qty of every local position
    nqex,        \* the net position of the exchange account, in lots
    norder,      \* the resting post-only order on the exchange
    nwatched,    \* the resting order is in state["watch_orders"]
    nlast,       \* what the last entry section did
    \* ---- the neutral-regime trade limit (SpecHour) ----
    hstate,      \* neutral_trade_count, age of last_neutral_reset and last_regime of the state dict
    hpc,         \* the process: down or run (inside the while loop)
    hheld,       \* positions held
    hlast        \* the regime and outcome of the last entry decision

exitVars == <<xpos, xst, xnow, xenv, xctx, xres>>
edgeVars == <<emetrics, elock, mpc, mgen, rpc, rsnap, epublished>>

syncVars == <<spos, sqex, sflat, srec>>

poVars == <<ppos, oex, ppc, ppolls, pwatch, page, pdrop, psynced>>

loopVars == <<lcfg, lcandle, lhandled, ldisk, lpos, llast_entry, lwatch, lpc, lcur,
              lguard, lorders, lhist, liter>>

closeVars == <<cpositions, csl_grace, cnow, cidx, cstage, cstill_open, cclosed, ccandle, clast, cbodies, cnextkey>>

saveVars == <<vstate, vfile, vtmp, vpc, vprev, vsaving, vlast, vsaves>>

fetchVars == <<kpc, kbackoff, kslept, kpolls, kfilled, kattempts>>

flowVars == <<wtrades, fbuckets, fcvd, fcall, frounds>>

coolVars == <<dlast, dprev>>

guardVars == <<gcall, gres>>

regimeVars == <<rctx, rret>>

obiVars == <<obook, ores>>

ofiVars == <<zbuckets, zres>>

gateVars == <<kin, kres>>

votesVars == <<vmetrics, vrounds>>

netVars == <<ncfg, npos, nqex, norder, nwatched, nlast>>

hourVars == <<hstate, hpc, hheld, hlast>>

vars == <<exitVars, edgeVars, syncVars, poVars, loopVars, closeVars, saveVars, fetchVars, flowVars, coolVars, guardVars, regimeVars, obiVars, ofiVars, gateVars, votesVars, netVars, hourVars>>

(***************************************************************************)
(* Helpers                                                                 *)
(***************************************************************************)
Max(a, b) == IF a >= b THEN a ELSE b
Min(a, b) == IF a <= b THEN a ELSE b
Abs(a) == IF a >= 0 THEN a ELSE -a

(***************************************************************************)
(* Exit engine: src/src/exit_engine.py                                     *)
(*                                                                         *)
(* Prices are integers (ticks).  Every comparison of the source between    *)
(* floats is kept as the same comparison with both sides multiplied by the *)
(* denominators; a value the source replaces by 1e-9 when it is 0 is kept  *)
(* as the exact limit for integer operands.                                *)
(***************************************************************************)

\* ---- bounds of the exit model ----
MaxPrice == 5            \* prices range over 1..MaxPrice
MaxNow == 8              \* the clock stops advancing here
ClockStep == 8           \* minutes between two loop iterations of the model
EntryPx == 3             \* the price at which the model opens positions

\* ---- program constants (getattr defaults of evaluate) ----
tp_near_bps == 10
sl_grace_bps == 6
early_tp_votes_needed == 2
sl_grace_need_votes == 2
sl_grace_sec == 20
time_stop_min == 7
tp_part_ratio_pct == 50

Prices == 1..MaxPrice
Atrs == {0, 20}
ObRatios == {5, 15}              \* ask/bid notional ratio, in tenths

NoPos == [side |-> "none"]
NoRes == [action |-> "NONE", ratio |-> 0, grace_sec |-> 0]
NoCtx == [price |-> 0]

ExitActions == {"HOLD", "TP_PART", "TP_ALL", "CUT", "UPDATE_SL", "SL_GRACE"}

\* A timestamp as Python holds it: the instant and whether the datetime
\* carries a timezone (aware) or not (naive).
utcnow_isoformat(now) == [t |-> now, aware |-> FALSE]

\* datetime.now(timezone.utc) - datetime.fromisoformat(et): subtracting a naive
\* datetime from an aware one raises TypeError, which evaluate() catches and
\* turns into held_min = 0.0.
held_min(pos, now) ==
    IF pos.time.aware THEN now - pos.time.t ELSE 0

dist_tp(pos, c) ==
    IF pos.side = "long" THEN Max(0, pos.tp_price - c) ELSE Max(0, c - pos.tp_price)

dist_sl(pos, c) ==
    IF pos.side = "long" THEN Max(0, c - pos.sl_price) ELSE Max(0, pos.sl_price - c)

\* near_thr = max(c * tp_near_bps / 10000, tp_near_atr_k(0.10) * a)
near_tp(pos, ctx) ==
    dist_tp(pos, ctx.price) * 10000 <= Max(ctx.price * tp_near_bps, 1000 * ctx.atr)

\* wick_ratio >= wick_body_ratio_min (2.0), body = max(1e-9, .)
wick_vote(pos, ctx) ==
    LET wick == IF pos.side = "long" THEN Max(0, ctx.high - ctx.price)
                                     ELSE Max(0, ctx.price - ctx.low)
        body == IF pos.side = "long" THEN ctx.price - ctx.low
                                     ELSE ctx.high - ctx.price
    IN  IF body <= 0 THEN wick > 0 ELSE wick >= 2 * body

\* ob_ratio_exit = max(1.2, ob_ask_bid_max_trend(1.40) - 0.2) = 1.2
ob_vote(pos, ctx) ==
    \/ pos.side = "long" /\ ctx.ob_ratio >= 12
    \/ pos.side = "short" /\ ctx.ob_ratio * 12 <= 100

flow_worse(pos, ctx, st) ==
    \/ ctx.rate_usd < st.flow_prev[pos.side]
    \/ pos.side = "long" /\ ctx.rate_usd <= 0
    \/ pos.side = "short" /\ ctx.rate_usd >= 0

tp_votes(pos, ctx, st) ==
    LET n == near_tp(pos, ctx)
        b2i(b) == IF b THEN 1 ELSE 0
    IN  b2i(n /\ wick_vote(pos, ctx)) + b2i(n /\ ctx.macd_peakout)
        + b2i(n /\ ob_vote(pos, ctx)) + b2i(n /\ flow_worse(pos, ctx, st))

near_tp_fires(pos, ctx, st) ==
    near_tp(pos, ctx) /\ tp_votes(pos, ctx, st) >= early_tp_votes_needed

\* near_sl = dist_sl <= max(c * sl_grace_bps / 10000, 0.06 * a)
near_sl(pos, ctx) ==
    dist_sl(pos, ctx.price) * 10000 <= Max(ctx.price * sl_grace_bps, 600 * ctx.atr)

sl_votes(pos, ctx) ==
    LET b2i(b) == IF b THEN 1 ELSE 0
        ob_bid_favored == ctx.ob_ratio < 10
        ofi_ok == IF pos.side = "long" THEN ctx.ofi_z >= 0 ELSE ctx.ofi_z <= 0
        ma_ok == IF pos.side = "long"
                 THEN 100 * ctx.price >= 100 * ctx.sma10 - 15 * ctx.atr
                 ELSE 100 * ctx.price <= 100 * ctx.sma10 + 15 * ctx.atr
    IN  b2i(ob_bid_favored) + b2i(ofi_ok) + b2i(ma_ok)

sl_grace_fires(pos, ctx) ==
    near_sl(pos, ctx) /\ sl_votes(pos, ctx) >= sl_grace_need_votes

\* cur_R = (c - ep) / r0 : kept as the numerator, r0 = pos.risk_sl_dist being
\* fixed for the life of a position.  peak_R starts at 0.0 (st.get(pk_key, 0.0)).
cur_R_num(pos, c) ==
    IF pos.side = "long" THEN c - pos.entry_price ELSE pos.entry_price - c

\* st[pk_key] < min_follow_through_R (0.4), r0 = abs(risk_sl_dist) or 1e-9
peak_below_follow(pos, peak) ==
    IF pos.risk_sl_dist = 0 THEN peak <= 0 ELSE 10 * peak < 4 * Abs(pos.risk_sl_dist)

time_stop_fires(pos, peak, now) ==
    held_min(pos, now) >= time_stop_min /\ peak_below_follow(pos, peak)

\* evaluate with the SL-grace block tested before the near-TP block
evaluate_sl_first(pos, ctx, st, now) ==
    LET st1 == [st EXCEPT !.flow_prev[pos.side] = ctx.rate_usd]
        pk == Max(st.peak, cur_R_num(pos, ctx.price))
        st2 == [st1 EXCEPT !.peak = pk]
    IN  IF sl_grace_fires(pos, ctx)
        THEN [res |-> [action |-> "SL_GRACE", ratio |-> 0, grace_sec |-> Max(5, sl_grace_sec)],
              st |-> st1]
        ELSE IF near_tp_fires(pos, ctx, st)
        THEN [res |-> [action |-> IF ctx.regime \in {"range", "neutral"} THEN "TP_ALL" ELSE "TP_PART",
                       ratio |-> 100, grace_sec |-> 0],
              st |-> st1]
        ELSE IF time_stop_fires(pos, pk, now)
        THEN [res |-> [action |-> "CUT", ratio |-> 0, grace_sec |-> 0], st |-> st2]
        ELSE [res |-> [action |-> "HOLD", ratio |-> 0, grace_sec |-> 0], st |-> st2]

\* evaluate(pos, ctx, book, trades, edge, state, S, h, l): the returned action
\* and the new state["exit_engine"].
evaluate(pos, ctx, st, now) ==
    LET st1 == [st EXCEPT !.flow_prev[pos.side] = ctx.rate_usd]
        pk == Max(st.peak, cur_R_num(pos, ctx.price))
        st2 == [st1 EXCEPT !.peak = pk]
    IN  IF near_tp_fires(pos, ctx, st)
        THEN IF ctx.regime \in {"range", "neutral"}
             THEN [res |-> [action |-> "TP_ALL", ratio |-> 0, grace_sec |-> 0], st |-> st1]
             ELSE [res |-> [action |-> "TP_PART",
                            ratio |-> Max(10, Min(100, tp_part_ratio_pct)),
                            grace_sec |-> 0],
                   st |-> st1]
        ELSE IF sl_grace_fires(pos, ctx)
        THEN [res |-> [action |-> "SL_GRACE", ratio |-> 0, grace_sec |-> Max(5, sl_grace_sec)],
              st |-> st1]
        ELSE IF time_stop_fires(pos, pk, now)
        THEN [res |-> [action |-> "CUT", ratio |-> 0, grace_sec |-> 0], st |-> st2]
        ELSE [res |-> [action |-> "HOLD", ratio |-> 0, grace_sec |-> 0], st |-> st2]

\* The position dict built by the market-entry path of run_loop.
entry_position(side, c, sl_dist, tp_mult, now) ==
    [side |-> side,
     entry_price |-> c,
     tp_price |-> IF side = "long" THEN c + tp_mult * sl_dist ELSE c - tp_mult * sl_dist,
     sl_price |-> IF side = "long" THEN c - sl_dist ELSE c + sl_dist,
     time |-> utcnow_isoformat(now),
     risk_sl_dist |-> Abs(c - (IF side = "long" THEN c - sl_dist ELSE c + sl_dist)),
     origin |-> "entry"]

\* The position dict built by _adopt_position_from_fill.
adopted_position(side, avg_px, tp, sl, now) ==
    [side |-> side,
     entry_price |-> avg_px,
     tp_price |-> tp,
     sl_price |-> sl,
     time |-> utcnow_isoformat(now),
     risk_sl_dist |-> Abs(avg_px - sl),
     origin |-> "adopt"]

ExitStIdle == [flow_prev |-> [s \in {"long", "short"} |-> 0], peak |-> 0]

\* The market context that changes slowly (one value per behaviour).
ExitEnvs ==
    [atr : Atrs, sma10 : {3}, macd_peakout : BOOLEAN, ob_ratio : ObRatios,
     ofi_z : {-1, 1}, regime : {"range", "trend_up"}]

NoEnv == [atr |-> 0, sma10 |-> 0, macd_peakout |-> FALSE, ob_ratio |-> 10,
          ofi_z |-> 0, regime |-> "neutral"]

ExitIdle ==
    /\ xpos = NoPos
    /\ xst = ExitStIdle
    /\ xnow = 0
    /\ xenv = NoEnv
    /\ xctx = NoCtx
    /\ xres = NoRes

\* run_loop opens a position by a market order at the candle close c.
XEnter ==
    /\ xpos = NoPos
    /\ \E side \in {"long", "short"} :
          xpos' = entry_position(side, EntryPx, 2, 1, xnow)
    /\ xst' = [xst EXCEPT !.peak = 0]
    /\ xres' = NoRes
    /\ xctx' = NoCtx
    /\ UNCHANGED <<xnow, xenv>>

\* run_loop adopts a fill found after a cancel (watchdog, timeout, reconcile).
XAdopt ==
    /\ xpos = NoPos
    /\ \E side \in {"long", "short"} :
          xpos' = adopted_position(side, EntryPx,
                                   IF side = "long" THEN EntryPx + 1 ELSE EntryPx - 1,
                                   IF side = "long" THEN EntryPx - 1 ELSE EntryPx + 1, xnow)
    /\ xst' = [xst EXCEPT !.peak = 0]
    /\ xres' = NoRes
    /\ xctx' = NoCtx
    /\ UNCHANGED <<xnow, xenv>>

\* One call ex = _exit_evaluate(p, ctx_exit, book_exit, tlist_exit, edge, state, S, h, l)
XEvaluate ==
    /\ xpos # NoPos
    /\ \E c \in Prices, hw \in {0, 2}, rate \in {-1, 1} :
          LET ctx == [price |-> c, high |-> c + hw, low |-> c - 1, atr |-> xenv.atr,
                      sma10 |-> xenv.sma10, macd_peakout |-> xenv.macd_peakout,
                      ob_ratio |-> xenv.ob_ratio, ofi_z |-> xenv.ofi_z,
                      rate_usd |-> rate, regime |-> xenv.regime]
          IN  /\ xctx' = ctx @@ [now |-> xnow, flow_prev |-> xst.flow_prev[xpos.side]]
              /\ xres' = evaluate(xpos, ctx, xst, xnow).res
              /\ xst' = evaluate(xpos, ctx, xst, xnow).st
    /\ UNCHANGED <<xpos, xnow, xenv>>

\* A full close (TP_ALL or CUT executed by run_loop) removes the position.
XClose ==
    /\ xpos # NoPos
    /\ xres.action \in {"TP_ALL", "CUT"}
    /\ xpos' = NoPos
    /\ xres' = NoRes
    /\ xctx' = NoCtx
    /\ UNCHANGED <<xst, xnow, xenv>>

\* Time passes between loop iterations.
XAdvance ==
    /\ xnow < MaxNow
    /\ xnow' = Min(MaxNow, xnow + ClockStep)
    /\ UNCHANGED <<xpos, xst, xenv, xctx, xres>>

ExitStart ==
    /\ xpos = NoPos
    /\ xst = ExitStIdle
    /\ xnow = 0
    /\ xenv \in ExitEnvs
    /\ xctx = NoCtx
    /\ xres = NoRes

ExitStep == XEnter \/ XAdopt \/ XEvaluate \/ XClose \/ XAdvance

(***************************************************************************)
(* Edge engine: src/edge_signal_pack/signal_engine.py                      *)
(*                                                                         *)
(* Every recompute of _metrics_loop produces fresh values; a field of the  *)
(* metrics dict is modelled by the number of the recompute that produced   *)
(* its value (0: the key is absent, as in the dict {} of __init__).        *)
(***************************************************************************)

MaxRecompute == 3        \* recomputes of _metrics_loop in one behaviour

\* keys written by self._metrics.update({...}) outside the lock (line 153)
EarlyKeys == {"ofi_z", "cons_buy", "cons_sell", "cvd_slope_z", "edge_votes"}
\* keys written only by the locked block (lines 169-194)
LateKeys == {"price", "obi", "cvd_above_ema", "liq_cluster_ok", "doi_up_ok"}
MetricKeys == EarlyKeys \cup LateKeys

EmptyMetrics == [k \in MetricKeys |-> 0]
NoSnap == [k \in MetricKeys |-> -1]

EdgeIdle ==
    /\ emetrics = EmptyMetrics
    /\ elock = "free"
    /\ mpc = "sleep"
    /\ mgen = 0
    /\ rpc = "idle"
    /\ rsnap = NoSnap
    /\ epublished = {EmptyMetrics}

\* lines 105-151: read book and tape, compute obi, ofi_z, cvd, votes into locals
MCompute ==
    /\ mpc = "compute"
    /\ mgen' = mgen + 1
    /\ mpc' = "update"
    /\ UNCHANGED <<emetrics, elock, rpc, rsnap, epublished>>

\* lines 153-161: self._metrics.update({...}) on the dict readers copy, no lock held
MUpdateInPlace ==
    /\ mpc = "update"
    /\ emetrics' = [k \in MetricKeys |-> IF k \in EarlyKeys THEN mgen ELSE emetrics[k]]
    /\ mpc' = "acquire"
    /\ UNCHANGED <<elock, mgen, rpc, rsnap, epublished>>

\* line 169: with self._lock
MAcquire ==
    /\ mpc = "acquire"
    /\ elock = "free"
    /\ elock' = "metrics"
    /\ mpc' = "publish"
    /\ UNCHANGED <<emetrics, mgen, rpc, rsnap, epublished>>

\* lines 171-194: d = dict(self._metrics); d.update({...}); self._metrics = d
MPublish ==
    /\ mpc = "publish"
    /\ emetrics' = [k \in MetricKeys |-> mgen]
    /\ epublished' = epublished \cup {[k \in MetricKeys |-> mgen]}
    /\ elock' = "free"
    /\ mpc' = "sleep"
    /\ UNCHANGED <<mgen, rpc, rsnap>>

\* line 197: time.sleep(1), then the next round
MSleep ==
    /\ mpc = "sleep"
    /\ mgen < MaxRecompute
    /\ mpc' = "compute"
    /\ UNCHANGED <<emetrics, elock, mgen, rpc, rsnap, epublished>>

\* get_metrics_snapshot line 221: with self._lock
RAcquire ==
    /\ rpc = "idle"
    /\ elock = "free"
    /\ elock' = "reader"
    /\ rpc' = "locked"
    /\ UNCHANGED <<emetrics, mpc, mgen, rsnap, epublished>>

\* get_metrics_snapshot line 222: return dict(self._metrics)
RCopy ==
    /\ rpc = "locked"
    /\ rsnap' = emetrics
    /\ elock' = "free"
    /\ rpc' = "idle"
    /\ UNCHANGED <<emetrics, mpc, mgen, epublished>>

EdgeStep == MCompute \/ MUpdateInPlace \/ MAcquire \/ MPublish \/ MSleep \/ RAcquire \/ RCopy

(***************************************************************************)
(* Reconciliation: src/src/main.py, _reconcile_with_exchange and           *)
(* _adopt_position_from_fill.  Quantities are whole lots.                  *)
(***************************************************************************)

MaxQty == 2              \* largest net position, in lots
MaxLocal == 3            \* longest local position list

\* S.sync_tolerance_qty = 1e-6 lots, written in millionths of a lot
sync_tolerance_qty_e6 == 1

within_tol(q_ex, q_local) == Abs(q_ex - q_local) * 1000000 <= sync_tolerance_qty_e6

SumQty(ps) ==
    LET RECURSIVE go(_)
        go(i) == IF i = 0 THEN 0
                 ELSE go(i - 1) + (IF ps[i].side = "long" THEN ps[i].qty ELSE 0 - ps[i].qty)
    IN  go(Len(ps))

\* q_local of _reconcile_with_exchange: signed sum over state["positions"]
q_local(ps) == SumQty(ps)

\* _adopt_position_from_fill: nothing for sz <= 0, else one more position
adopt_position_from_fill(ps, side, sz) ==
    IF sz <= 0 THEN ps
    ELSE Append(ps, [side |-> IF side = "LONG" THEN "long" ELSE "short", qty |-> sz])

\* The exchange after a reduce-only market close of the whole net position.
exchange_after_close(q_ex, close_ok) == IF close_ok THEN 0 ELSE q_ex

\* _reconcile_with_exchange: the local list and the exchange position after the call
reconcile(ps, q_ex, auto_flatten, fetch_ok, close_ok) ==
    IF ~fetch_ok THEN [positions |-> ps, q_ex |-> q_ex, acted |-> "none"]
    ELSE IF within_tol(q_ex, q_local(ps)) THEN [positions |-> ps, q_ex |-> q_ex, acted |-> "none"]
    ELSE IF auto_flatten /\ Abs(q_ex) > 0
         THEN [positions |-> ps, q_ex |-> exchange_after_close(q_ex, close_ok),
               acted |-> IF close_ok THEN "flatten" ELSE "flatten_failed"]
         ELSE [positions |-> adopt_position_from_fill(ps, IF q_ex > 0 THEN "LONG" ELSE "SHORT", Abs(q_ex)),
               q_ex |-> q_ex, acted |-> "adopt"]

NoRec == [acted |-> "idle"]

SyncIdle ==
    /\ spos = <<>>
    /\ sqex = 0
    /\ sflat = FALSE
    /\ srec = NoRec

SyncStart ==
    /\ spos = <<>>
    /\ sqex = 0
    /\ sflat \in BOOLEAN
    /\ srec = NoRec

\* one call of _reconcile_with_exchange from _housekeep_sync
SReconcile ==
    /\ Len(spos) < MaxLocal
    /\ \E fetch_ok \in BOOLEAN, close_ok \in BOOLEAN :
          LET r == reconcile(spos, sqex, sflat, fetch_ok, close_ok)
          IN  /\ spos' = r.positions
              /\ sqex' = r.q_ex
              /\ srec' = [acted |-> r.acted]
    /\ UNCHANGED sflat

\* the bot opens a position of q lots: the list and the exchange both move
SEntry ==
    /\ Len(spos) < MaxLocal
    /\ \E side \in {"long", "short"}, q \in 1..MaxQty :
          LET d == IF side = "long" THEN q ELSE 0 - q
          IN  /\ Abs(sqex + d) <= MaxQty
              /\ spos' = Append(spos, [side |-> side, qty |-> q])
              /\ sqex' = sqex + d
    /\ srec' = NoRec
    /\ UNCHANGED sflat

\* the bot closes its oldest position: reduce-only order, then the list entry goes
SExit ==
    /\ Len(spos) > 0
    /\ LET d == IF spos[1].side = "long" THEN spos[1].qty ELSE 0 - spos[1].qty
       IN  /\ Abs(sqex - d) <= MaxQty
           /\ sqex' = sqex - d
    /\ spos' = Tail(spos)
    /\ srec' = NoRec
    /\ UNCHANGED sflat

\* the exchange position moves without the bot (stop hit, liquidation, manual order)
SExchangeMove ==
    /\ \E q \in (0 - MaxQty)..MaxQty : q # sqex /\ sqex' = q
    /\ srec' = NoRec
    /\ UNCHANGED <<spos, sflat>>

SyncStep == SReconcile \/ SEntry \/ SExit \/ SExchangeMove

(***************************************************************************)
(* One post-only entry order: src/src/main.py, the fill-watch loop of      *)
(* run_loop, _order_status_local, _watchdog_open_orders, _housekeep_sync.  *)
(* The exchange side (fills, the effect of a cancel, the status it         *)
(* reports) follows the spec's Exchange REST interface.                    *)
(***************************************************************************)

OrderQty == 5            \* lots of the post-only order
PollTimeout == 2         \* polls before postonly_fill_timeout_sec has passed
WatchTtl == 2            \* housekeeping rounds before postonly_watchdog_ttl_sec has passed

\* S.postonly_min_fill_ratio = 0.25, in percent
postonly_min_fill_ratio_pct == 25

NoOrder == [status |-> "", cum |-> 0]

order_live(o) == o.status \in {"New", "PartiallyFilled"}

\* the exchange executes f more lots of a live order
exchange_fill(o, f) ==
    IF ~order_live(o) \/ f = 0 THEN o
    ELSE [status |-> IF o.cum + f >= OrderQty THEN "Filled" ELSE "PartiallyFilled",
          cum |-> Min(OrderQty, o.cum + f)]

\* the exchange after a cancel request: a live order is cancelled, its fills stay
exchange_cancel(o, ok) ==
    IF ok /\ order_live(o) THEN [status |-> "Cancelled", cum |-> o.cum] ELSE o

\* _order_status_local: (status, cumExecQty), or ("", 0) when the request fails
order_status_local(o, read_ok) == IF read_ok THEN o ELSE NoOrder

\* st.lower().startswith("cancel")
status_is_cancel(st) == st = "Cancelled"

\* full = filled_qty >= qty * 0.999
fill_is_full(fq) == fq * 1000 >= OrderQty * 999

\* filled_qty > 0 and (full or (allow_part and ratio >= min_ratio))
fill_accepted(fq) ==
    fq > 0 /\ (fill_is_full(fq) \/ fq * 100 >= postonly_min_fill_ratio_pct * OrderQty)

POIdle ==
    /\ ppos = <<>>
    /\ oex = NoOrder
    /\ ppc = "idle"
    /\ ppolls = 0
    /\ pwatch = FALSE
    /\ page = 0
    /\ pdrop = "none"
    /\ psynced = FALSE

\* res = _place_postonly_fn(...) with retCode 0: the order rests in the book
PPlace ==
    /\ ppc = "idle"
    /\ oex = NoOrder
    /\ oex' = [status |-> "New", cum |-> 0]
    /\ ppc' = "poll"
    /\ UNCHANGED <<ppos, ppolls, pwatch, page, pdrop, psynced>>

\* the exchange matches part of the resting order
EFill ==
    /\ order_live(oex)
    /\ \E f \in 1..(OrderQty - oex.cum) : oex' = exchange_fill(oex, f)
    /\ UNCHANGED <<ppos, ppc, ppolls, pwatch, page, pdrop, psynced>>

\* One round of the fill-watch loop.  f lots fill between the status read and
\* the cancel request; a request that raises is caught (cancel: ignored; status
\* in the loop: the outer handler ends the entry).
PPoll ==
    /\ ppc = "poll"
    /\ \E read_ok \in BOOLEAN, f \in {0, 1}, cancel_ok \in BOOLEAN, read2_ok \in BOOLEAN :
          LET fq == oex.cum
              raced == exchange_cancel(exchange_fill(oex, f), cancel_ok)
              now2 == order_status_local(raced, read2_ok)
          IN  IF ~read_ok
              THEN /\ ppc' = "done"
                   /\ UNCHANGED <<ppos, oex, ppolls, pwatch, page>>
              ELSE IF fill_accepted(fq)
              THEN /\ ppos' = Append(ppos, [side |-> "long", qty |-> fq])
                   /\ oex' = IF fill_is_full(fq) THEN oex ELSE raced
                   /\ ppc' = "done"
                   /\ UNCHANGED <<ppolls, pwatch, page>>
              ELSE IF ppolls >= PollTimeout
              THEN /\ oex' = raced
                   /\ ppos' = adopt_position_from_fill(ppos, "LONG", now2.cum)
                   /\ pwatch' = (now2.cum <= 0)
                   /\ page' = 0
                   /\ ppc' = "done"
                   /\ UNCHANGED ppolls
              ELSE /\ ppolls' = ppolls + 1
                   /\ UNCHANGED <<ppos, oex, ppc, pwatch, page>>
    /\ UNCHANGED <<pdrop, psynced>>

\* _watchdog_open_orders on the one watched order
watchdog(ps, o, age, read_ok, f, cancel_ok) ==
    LET r == order_status_local(o, read_ok)
    IN  IF r.cum > 0
        THEN [positions |-> adopt_position_from_fill(ps, "LONG", r.cum), order |-> o,
              watch |-> FALSE, drop |-> "fill"]
        ELSE IF status_is_cancel(r.status)
        THEN [positions |-> ps, order |-> o, watch |-> FALSE, drop |-> "cancel"]
        ELSE IF age > WatchTtl
        THEN [positions |-> ps, order |-> exchange_cancel(exchange_fill(o, f), cancel_ok),
              watch |-> FALSE, drop |-> "ttl"]
        ELSE [positions |-> ps, order |-> o, watch |-> TRUE, drop |-> "none"]

\* _housekeep_sync at the top of a loop iteration: the watchdog, then (when
\* sync_interval_sec has passed) _reconcile_with_exchange in its default adopt mode
PHousekeep ==
    /\ ppc # "poll"
    /\ \E read_ok \in BOOLEAN, f \in {0, 1}, cancel_ok \in BOOLEAN, sync_due \in BOOLEAN :
          LET w == IF pwatch THEN watchdog(ppos, oex, page, read_ok, f, cancel_ok)
                   ELSE [positions |-> ppos, order |-> oex, watch |-> FALSE, drop |-> pdrop]
              sync == sync_due /\ Len(w.positions) < MaxLocal
              r == reconcile(w.positions, w.order.cum, FALSE, sync, TRUE)
          IN  /\ (~pwatch => (read_ok /\ f = 0 /\ cancel_ok))
              /\ ppos' = r.positions
              /\ oex' = w.order
              /\ pwatch' = w.watch
              /\ pdrop' = w.drop
              /\ page' = IF w.watch THEN Min(WatchTtl + 1, page + 1) ELSE page
              /\ psynced' = (psynced \/ (sync /\ ppc = "done" /\ ~w.watch /\ ~order_live(w.order)))
    /\ UNCHANGED <<ppc, ppolls>>

POStep == PPlace \/ EFill \/ PPoll \/ PHousekeep

(***************************************************************************)
(* The candle loop: src/src/main.py, run_loop.  One iteration runs through *)
(* the stages top, exit, signal, guard, regime, postonly, market; what the *)
(* market data make of each test is an input of the stage.                 *)
(***************************************************************************)

MaxCandle == 2           \* closed candles in one behaviour

max_positions == 4

Candles == 1..MaxCandle
Sides == {"LONG", "SHORT"}
Verdicts == {"allow", "reject", "wait", "raise"}

NoCur == [last_start |-> 0, sig |-> "NONE", override_ok |-> FALSE, ofi_nonneg |-> TRUE,
          side |-> "LONG", ok |-> FALSE, raised |-> FALSE, pos_pre |-> <<>>, le_pre |-> 0,
          top_n |-> 0, closed_n |-> 0, margin_n |-> -1, maxpos_n |-> -1, gate |-> "none"]
NoGuard == [sd \in Sides |-> "none"]
NoHist == [norders |-> 0, finished |-> FALSE]

\* the marker set in memory only, state.json keeping its old value
handled_marker_unsaved(T, disk) == [mem |-> T, disk |-> disk]

\* last_handled_kline = last_start; state['last_kline_start'] = last_start; save_state(state)
handled_marker(T, disk) == [mem |-> T, disk |-> T]

\* a skip path or the normal end of the tick: marker, save, sleep, next iteration
Finish(T, hist) ==
    /\ lhandled' = handled_marker(T, ldisk).mem
    /\ ldisk' = handled_marker(T, ldisk).disk
    /\ lhist' = [hist EXCEPT ![T].finished = TRUE]
    /\ lpc' = "top"
    /\ liter' = "finished"

\* except Exception of the outer try: no marker, the next iteration starts over
Abort ==
    /\ lpc' = "top"
    /\ liter' = "aborted"
    /\ UNCHANGED <<lhandled, ldisk>>

LoopIdle ==
    /\ lcfg = [allow_countertrend |-> FALSE, use_postonly_entries |-> TRUE]
    /\ lcandle = 1
    /\ lhandled = 0
    /\ ldisk = 0
    /\ lpos = <<>>
    /\ llast_entry = 0
    /\ lwatch = FALSE
    /\ lpc = "top"
    /\ lcur = NoCur
    /\ lguard = NoGuard
    /\ lorders = <<>>
    /\ lhist = [T \in Candles |-> NoHist]
    /\ liter = "none"

LoopStart ==
    /\ lcfg \in [allow_countertrend : BOOLEAN, use_postonly_entries : BOOLEAN]
    /\ lcandle = 1
    /\ lhandled = 0
    /\ ldisk = 0
    /\ lpos = <<>>
    /\ llast_entry = 0
    /\ lwatch = FALSE
    /\ lpc = "top"
    /\ lcur = NoCur
    /\ lguard = NoGuard
    /\ lorders = <<>>
    /\ lhist = [T \in Candles |-> NoHist]
    /\ liter = "none"

\* the next candle closes (at any point of an iteration)
LNewCandle ==
    /\ lcandle < MaxCandle
    /\ lcandle' = lcandle + 1
    /\ UNCHANGED <<lcfg, lhandled, ldisk, lpos, llast_entry, lwatch, lpc, lcur, lguard,
                   lorders, lhist, liter>>

\* the process stops between two iterations and starts again: load_state()
LRestart ==
    /\ lpc = "top"
    /\ liter \in {"finished", "dedup", "dedup_restarted"}
    /\ lhandled' = ldisk
    /\ liter' = "restarted"
    /\ UNCHANGED <<lcfg, lcandle, ldisk, lpos, llast_entry, lwatch, lpc, lcur, lguard,
                   lorders, lhist>>

\* Top of an iteration: klines, _housekeep_sync, latest closed candle, de-duplication.
LTop ==
    /\ lpc = "top"
    /\ \E hk \in (IF lwatch THEN {"keep", "adopt", "drop"} ELSE {"keep"}) :
          /\ lpos' = IF hk = "adopt" THEN adopt_position_from_fill(lpos, "LONG", 1) ELSE lpos
          /\ llast_entry' = IF hk = "adopt" THEN lcandle ELSE llast_entry
          /\ lwatch' = (hk = "keep" /\ lwatch)
    /\ IF lhandled = lcandle
       THEN /\ liter' = IF liter \in {"restarted", "dedup_restarted"} THEN "dedup_restarted"
                         ELSE "dedup"
            /\ UNCHANGED <<lpc, lcur, lguard, lorders, lhist>>
       ELSE /\ lpc' = "exit"
            /\ lcur' = [NoCur EXCEPT !.last_start = lcandle]
            /\ lguard' = NoGuard
            /\ lorders' = <<>>
            /\ liter' = "start"
            /\ UNCHANGED lhist
    /\ UNCHANGED <<lcfg, lcandle, lhandled, ldisk>>

\* state["positions"] after an exit section that leaves a closed position in the list
positions_after_exit_stale(ps, close) == ps

\* state["positions"] = still_open (line 1733): a closed position is not in still_open
positions_after_exit(ps, close) == IF close /\ Len(ps) > 0 THEN Tail(ps) ELSE ps

\* Exit evaluation of every open position (lines 1504-1733); a close removes the position.
LExit ==
    /\ lpc = "exit"
    /\ \E close \in BOOLEAN, abort \in BOOLEAN :
          /\ lpos' = positions_after_exit(lpos, close)
          /\ IF abort
             THEN /\ Abort
                  /\ UNCHANGED <<lcur, lhist>>
             ELSE /\ lpc' = "signal"
                  /\ lcur' = [lcur EXCEPT !.pos_pre = lpos', !.le_pre = llast_entry,
                                          !.top_n = Len(lpos),
                                          !.closed_n = IF close /\ Len(lpos) > 0 THEN 1 ELSE 0]
                  /\ liter' = "exit"
                  /\ UNCHANGED <<lhandled, ldisk, lhist>>
    /\ UNCHANGED <<lcfg, lcandle, llast_entry, lwatch, lguard, lorders>>

\* Balance query and margin estimate over state["positions"] (lines 1736-1737), the
\* branch on it (lines 1738-1741), then EdgeSignal and cooldown (up to line 1918): the
\* entry decision starts.  margin_low: mr < margin_ratio_stop, which est_margin_ratio
\* (lines 1074-1081) gives only with something held; cond_entry: no indicator is NaN
\* and a >= min_atr_usd (lines 1441-1450).  EdgeSignal is asked in the elif branch
\* only; otherwise sig, edge_votes and ofi_z keep the values of lines 1414-1416.
LSignal ==
    /\ lpc = "signal"
    /\ \E margin_low \in (IF Len(lpos) > 0 THEN BOOLEAN ELSE {FALSE}), cond_entry \in BOOLEAN,
          skip \in BOOLEAN, override_raw \in BOOLEAN :
          LET T == lcur.last_start
              gate == IF margin_low THEN "margin_stop"
                      ELSE IF cond_entry THEN "open" ELSE "cond_false"
          IN  \E sig \in (IF gate = "open" THEN {"LONG", "SHORT", "NONE"} ELSE {"NONE"}),
                 ofi_nonneg \in (IF gate = "open" THEN BOOLEAN ELSE {TRUE}) :
                 LET flow_dir == IF ofi_nonneg THEN "LONG" ELSE "SHORT"
                 IN  IF skip
                     THEN /\ Finish(T, lhist)
                          /\ lcur' = [lcur EXCEPT !.margin_n = Len(lpos), !.gate = gate]
                     ELSE /\ lcur' = [lcur EXCEPT !.margin_n = Len(lpos), !.gate = gate,
                                                  !.sig = sig, !.ofi_nonneg = ofi_nonneg,
                                                  !.override_ok = override_raw /\ (sig = "NONE" \/ sig = flow_dir)]
                          /\ lpc' = "guard"
                          /\ liter' = "signal"
                          /\ UNCHANGED <<lhandled, ldisk, lhist>>
    /\ UNCHANGED <<lcfg, lcandle, lpos, llast_entry, lwatch, lguard, lorders>>

\* Entry Guard for the signalled side (lines 2003-2045).  "wait" is the reject
\* whose reason asks to wait for a pullback; "raise" is an exception in the guard.
LGuard ==
    /\ lpc = "guard"
    /\ \E v \in Verdicts :
          LET side == IF lcur.sig = "SHORT" THEN "SHORT" ELSE "LONG"
              ok == (v = "allow")
              guard_wait == (v = "wait")
          IN  /\ lguard' = [lguard EXCEPT ![side] = v]
              /\ IF ~ok /\ ~(guard_wait /\ lcfg.use_postonly_entries)
                 THEN /\ Finish(lcur.last_start, lhist)
                      /\ lcur' = [lcur EXCEPT !.side = side, !.ok = FALSE, !.raised = (v = "raise"),
                                              !.sig = "NONE", !.override_ok = FALSE, !.ofi_nonneg = TRUE]
                 ELSE /\ lcur' = [lcur EXCEPT !.side = side, !.ok = TRUE]
                      /\ lpc' = "regime"
                      /\ liter' = "guard"
                      /\ UNCHANGED <<lhandled, ldisk, lhist>>
    /\ UNCHANGED <<lcfg, lcandle, lpos, llast_entry, lwatch, lorders>>

\* the side of the trend, or "none"
trend_dir(regime) ==
    IF regime = "trend_up" THEN "LONG" ELSE IF regime = "trend_down" THEN "SHORT" ELSE "none"

\* pb_flip_follow (lines 2106-2130): the side ordered and the guard state after it
pb_flip_follow(cur, guard, regime, v2) ==
    LET override_dir == IF cur.ofi_nonneg THEN "LONG" ELSE "SHORT"
        td == trend_dir(regime)
        flip == cur.override_ok /\ td # "none" /\ override_dir # td
        reeval == flip /\ cur.side # td
    IN  [side |-> IF flip THEN td ELSE cur.side,
         ok |-> IF reeval THEN v2 = "allow" ELSE cur.ok,
         raised |-> cur.raised \/ (reeval /\ v2 = "raise"),
         guard |-> IF reeval THEN [guard EXCEPT ![td] = v2] ELSE guard,
         flip |-> flip]

\* Enhanced conditions, regime rules, pb_flip_follow, opposite-entry guard,
\* max_positions (lines 2047-2204).
LRegime ==
    /\ lpc = "regime"
    /\ \E enhanced \in {"ok", "no", "raise"},
          regime \in {"trend_up", "trend_down", "range", "neutral"},
          v2 \in Verdicts, rule_ok \in BOOLEAN, opp_ok \in BOOLEAN :
          LET countertrend == \/ (regime = "trend_down" /\ lcur.side = "LONG")
                              \/ (regime = "trend_up" /\ lcur.side = "SHORT")
              f == pb_flip_follow(lcur, lguard, regime, v2)
              strong_block == ~rule_ok /\ trend_dir(regime) # "none" /\ f.side # trend_dir(regime)
          IN  IF enhanced = "raise"
              THEN /\ Abort
                   /\ UNCHANGED <<lcur, lguard, lhist>>
              ELSE IF \/ enhanced = "no"
                      \/ (~lcfg.allow_countertrend /\ countertrend)
                      \/ (regime = "neutral" /\ ~rule_ok)
              THEN /\ Finish(lcur.last_start, lhist)
                   /\ lcur' = [lcur EXCEPT !.sig = "NONE", !.override_ok = FALSE, !.ofi_nonneg = TRUE]
                   /\ UNCHANGED lguard
              ELSE /\ lguard' = f.guard
                   /\ lcur' = [lcur EXCEPT !.side = f.side, !.ok = f.ok, !.raised = f.raised,
                                           !.sig = "NONE", !.override_ok = FALSE, !.ofi_nonneg = TRUE,
                                           !.maxpos_n = Len(lpos)]
                   /\ IF \/ (regime = "range" /\ ~rule_ok)
                         \/ strong_block
                         \/ ~opp_ok
                         \/ Len(lpos) >= max_positions
                      THEN Finish(lcur.last_start, lhist)
                      ELSE /\ lpc' = "postonly"
                           /\ liter' = "regime"
                           /\ UNCHANGED <<lhandled, ldisk, lhist>>
    /\ UNCHANGED <<lcfg, lcandle, lpos, llast_entry, lwatch, lorders>>

\* Post-only entry (lines 2251-2474).  "rejected": retCode # 0; "raised": the
\* placement call raises; "filled": a fill is recorded (in the loop or at the
\* timeout); "watch": timeout without a fill; "abandoned": the fill watch raises.
LPostOnly ==
    /\ lpc = "postonly"
    /\ IF ~lcfg.use_postonly_entries
       THEN /\ lpc' = "market"
            /\ liter' = "postonly"
            /\ UNCHANGED <<lpos, llast_entry, lwatch, lorders, lhist, lhandled, ldisk>>
       ELSE \E res \in {"rejected", "raised", "filled", "watch", "abandoned"} :
               LET T == lcur.last_start
                   placed_postonly == res \notin {"rejected", "raised"}
               IN  /\ lorders' = Append(lorders, [kind |-> "postonly", side |-> lcur.side,
                                                  ok |-> placed_postonly])
                   /\ lpos' = IF res = "filled" THEN adopt_position_from_fill(lpos, lcur.side, 1)
                              ELSE lpos
                   /\ llast_entry' = IF res = "filled" THEN lcandle ELSE llast_entry
                   /\ lwatch' = (lwatch \/ res = "watch")
                   /\ IF placed_postonly
                      THEN Finish(T, [lhist EXCEPT ![T].norders = @ + 1])
                      ELSE /\ lpc' = "market"
                           /\ liter' = "postonly"
                           /\ lhist' = [lhist EXCEPT ![T].norders = @ + 1]
                           /\ UNCHANGED <<lhandled, ldisk>>
    /\ UNCHANGED <<lcfg, lcandle, lcur, lguard>>

\* Market entry when no post-only order was placed, then the end of the tick
\* (lines 2476-2596).
LMarket ==
    /\ lpc = "market"
    /\ \E notional_ok \in BOOLEAN, res \in {"ok", "fail", "raise"} :
          LET T == lcur.last_start
          IN  IF ~notional_ok
              THEN /\ Finish(T, lhist)
                   /\ UNCHANGED <<lpos, llast_entry, lorders>>
              ELSE /\ lorders' = Append(lorders, [kind |-> "market", side |-> lcur.side,
                                                  ok |-> (res = "ok")])
                   /\ lpos' = IF res = "ok" THEN adopt_position_from_fill(lpos, lcur.side, 1)
                              ELSE lpos
                   /\ llast_entry' = IF res = "ok" THEN lcandle ELSE llast_entry
                   /\ Finish(T, [lhist EXCEPT ![T].norders = @ + 1])
    /\ UNCHANGED <<lcfg, lcandle, lwatch, lcur, lguard>>

LoopStep ==
    \/ LNewCandle \/ LRestart \/ LTop \/ LExit \/ LSignal \/ LGuard \/ LRegime
    \/ LPostOnly \/ LMarket

(***************************************************************************)
(* Exit section of run_loop: src/src/main.py lines 1504-1733               *)
(* One pass over state["positions"] per handled tick: trailing stop, Exit  *)
(* Engine action, take-profit check, stop-loss check, still_open.          *)
(***************************************************************************)

\* ---- bounds of the close model ----
MaxBody == 2             \* passes of the loop body (one position, one tick) in one behaviour
MaxWall == 40            \* time.time() stops advancing here (seconds)
EntryLots == 1           \* size of a new position, in lots

Elapsed == {0, 10, 20}           \* seconds a REST call or a pause can take
PosKeys == {1, 2}                \* str(p["time"]): one key per opened position
entry_qty == EntryLots * 2 ^ MaxBody

\* Candles seen by the exit section (entry 3, long tp 5 / sl 1, short tp 1 / sl 5).
ExitCandles ==
    {[h |-> 4, l |-> 2, c |-> 3], [h |-> 5, l |-> 3, c |-> 4],
     [h |-> 3, l |-> 1, c |-> 2], [h |-> 5, l |-> 1, c |-> 3]}

\* Exit Engine actions that submit a close order (line 1574).
CloseActions == {"TP_PART", "TP_ALL", "CUT"}

\* Outcomes of a close order: retCode 0, or a non-zero retCode or an exception; a
\* check that submits nothing has no outcome to choose.
OrderOutcomes(submits) == IF submits THEN BOOLEAN ELSE {TRUE}

NoCandle == [h |-> 0, l |-> 0, c |-> 0]

NoLast == [key |-> 0, qty_pre |-> 0, pnl |-> 0, act |-> "NONE", sl_before |-> 0,
           sl_after |-> 0, early |-> "none", tp |-> "none", sl |-> "none", sl_t |-> 0,
           granted |-> 0, sl_hit |-> FALSE, done |-> FALSE, kept |-> FALSE, qty_post |-> 0]

\* The position appended by the entry path (lines 2515-2528), sized in lots, entered at
\* EntryPx; the profile of _decide_tp_sl_profile (lines 349-380) has trail_k (range) or
\* be_k (the others).  granted is history: the latest grace-until the exit section
\* granted to the position.
open_position(key, side, trail_k) ==
    [key |-> key, side |-> side, qty |-> entry_qty,
     tp_price |-> IF side = "long" THEN EntryPx + 2 ELSE EntryPx - 2,
     sl_price |-> IF side = "long" THEN EntryPx - 2 ELSE EntryPx + 2,
     trail_k |-> trail_k, be_k |-> IF trail_k > 0 THEN 0 ELSE 1, sl_to_be |-> FALSE,
     granted |-> 0]

\* Move to breakeven (lines 1513-1522) with ATR a = 1: once the profit reaches
\* be_k * a the stop is set to the entry price; use_move_to_be is the setting.
move_to_be(p, c, use_move_to_be) ==
    LET in_profit == IF p.side = "long" THEN c - EntryPx ELSE EntryPx - c
    IN  IF p.be_k > 0 /\ use_move_to_be /\ in_profit >= p.be_k /\ ~p.sl_to_be
        THEN [p EXCEPT !.sl_price = EntryPx, !.sl_to_be = TRUE]
        ELSE p

\* Range trailing that follows the close in both directions.
trail_sl_follow(p, c) ==
    IF p.trail_k > 0
    THEN IF p.side = "long" THEN c - p.trail_k ELSE c + p.trail_k
    ELSE p.sl_price

\* Range trailing (lines 1525-1536) with ATR a = 1: the stop only moves in favour.
trail_sl(p, c) ==
    IF p.trail_k > 0
    THEN IF p.side = "long" THEN Max(p.sl_price, c - p.trail_k)
                            ELSE Min(p.sl_price, c + p.trail_k)
    ELSE p.sl_price

\* UPDATE_SL (lines 1560-1566): one-sided update of the stop.
update_sl(p, ns) ==
    IF p.side = "long" THEN Max(p.sl_price, ns) ELSE Min(p.sl_price, ns)

\* qty_close of an early exit (lines 1579-1581), ratio in percent.
qty_close(qty_all, act) ==
    LET ratio == IF act \in {"TP_ALL", "CUT"} THEN 100 ELSE Max(10, Min(100, tp_part_ratio_pct))
    IN  Max(0, Min(qty_all, (qty_all * ratio) \div 100))

\* Take-profit condition (lines 1634-1635).
tp_hit(p, cd) ==
    \/ p.side = "long" /\ cd.h >= p.tp_price
    \/ p.side = "short" /\ cd.l <= p.tp_price

\* Stop-loss condition (lines 1691-1692).
sl_hit(p, cd) ==
    \/ p.side = "long" /\ cd.l <= p.sl_price
    \/ p.side = "short" /\ cd.h >= p.sl_price

\* sl_grace_ok of lines 1671-1688 with the grace check left out.
sl_grace_ok_ignored(now_ts, until) == TRUE

\* sl_grace_ok (lines 1671-1688): FALSE while now_ts < until.
sl_grace_ok(now_ts, until) == ~(now_ts < until)

\* State of a failed close order with the failure treated as a fill.
after_failed_close_as_fill(closed) == TRUE

\* The closed flag after a close order failed (lines 1625-1628, 1666-1669, 1724-1729).
after_failed_close(closed) == closed

CloseIdle ==
    /\ cpositions = <<>>
    /\ csl_grace = [k \in PosKeys |-> 0]
    /\ cnow = 0
    /\ cidx = 0
    /\ cstage = "idle"
    /\ cstill_open = <<>>
    /\ cclosed = FALSE
    /\ ccandle = NoCandle
    /\ clast = NoLast
    /\ cbodies = 0
    /\ cnextkey = 1

\* The Exit Engine branch of the loop body (lines 1538-1631) for position p:
\* act is the action returned by _exit_evaluate, ok the outcome of the close order.
apply_exit_action(p, act, ok, ns, now_ts, until, closed) ==
    LET qc == qty_close(p.qty, act)
        remain == p.qty - qc
        same == [p |-> p, closed |-> closed, until |-> until, pnl |-> 0, order |-> "none"]
    IN  IF act = "SL_GRACE"
        THEN [same EXCEPT !.until = now_ts + Max(5, sl_grace_sec),
                          !.p = [p EXCEPT !.granted = Max(@, now_ts + Max(5, sl_grace_sec))]]
        ELSE IF act = "UPDATE_SL"
        THEN [same EXCEPT !.p = [p EXCEPT !.sl_price = update_sl(p, ns)]]
        ELSE IF act \in CloseActions /\ qc > 0
        THEN IF ok
             THEN IF remain <= 0
                  THEN [p |-> p, closed |-> TRUE, until |-> 0, pnl |-> 1, order |-> "ok"]
                  ELSE [p |-> [p EXCEPT !.qty = remain], closed |-> closed, until |-> until,
                        pnl |-> 1, order |-> "ok"]
             ELSE [same EXCEPT !.closed = after_failed_close(closed), !.order = "fail"]
        ELSE same

\* The take-profit check (lines 1633-1669); it does not look at the closed flag.
take_profit(p, cd, ok, closed) ==
    IF tp_hit(p, cd)
    THEN IF ok THEN [closed |-> TRUE, pnl |-> 1, order |-> "ok"]
               ELSE [closed |-> after_failed_close(closed), pnl |-> 0, order |-> "fail"]
    ELSE [closed |-> closed, pnl |-> 0, order |-> "none"]

\* The stop-loss check (lines 1670-1729): held back while the grace runs; an expired
\* grace entry is removed.
stop_loss(p, cd, ok, closed, now_ts, until) ==
    LET grace_ok == sl_grace_ok(now_ts, until)
        left == IF now_ts < until THEN until ELSE 0
    IN  IF grace_ok /\ ~closed /\ sl_hit(p, cd)
        THEN IF ok THEN [closed |-> TRUE, pnl |-> 1, order |-> "ok", until |-> left]
                   ELSE [closed |-> after_failed_close(closed), pnl |-> 0, order |-> "fail",
                         until |-> left]
        ELSE [closed |-> closed, pnl |-> 0, order |-> "none", until |-> left]

\* The entry path appends a position between two exit sections (lines 2513-2533).
COpen ==
    /\ cidx = 0
    /\ cnextkey \in PosKeys
    /\ \E side \in {"long", "short"}, trail_k \in {0, 1} :
          cpositions' = Append(cpositions, open_position(cnextkey, side, trail_k))
    /\ cnextkey' = cnextkey + 1
    /\ UNCHANGED <<csl_grace, cnow, cidx, cstage, cstill_open, cclosed, ccandle, clast,
                   cbodies>>

\* A handled tick reaches the exit section: still_open = [] (line 1504).
CBegin ==
    /\ cidx = 0
    /\ cbodies + Len(cpositions) <= MaxBody
    /\ \E cd \in ExitCandles, e \in Elapsed :
          /\ cnow + e <= MaxWall
          /\ cnow' = cnow + e
          /\ ccandle' = cd
    /\ cstill_open' = <<>>
    /\ IF Len(cpositions) = 0
       THEN UNCHANGED <<cidx, cstage>>
       ELSE cidx' = 1 /\ cstage' = "engine"
    /\ clast' = NoLast
    /\ UNCHANGED <<cpositions, csl_grace, cclosed, cbodies, cnextkey>>

\* First half of the loop body for positions[cidx] (lines 1506-1631): move to
\* breakeven, trailing stop, closed = False, Exit Engine action.
CEngine ==
    /\ cstage = "engine"
    /\ \E act \in ExitActions, use_move_to_be \in BOOLEAN :
       \E ok \in OrderOutcomes(act \in CloseActions) :
          LET p0 == move_to_be(cpositions[cidx], ccandle.c, use_move_to_be)
              p == [p0 EXCEPT !.sl_price = trail_sl(p0, ccandle.c)]
              r == apply_exit_action(p, act, ok, EntryPx, cnow, csl_grace[p.key], FALSE)
          IN  /\ cpositions' = [cpositions EXCEPT ![cidx] = r.p]
              /\ cclosed' = r.closed
              /\ csl_grace' = [csl_grace EXCEPT ![p.key] = r.until]
              /\ clast' = [NoLast EXCEPT !.key = p.key, !.qty_pre = p.qty, !.pnl = r.pnl,
                                         !.act = act, !.sl_before = p.sl_price,
                                         !.sl_after = r.p.sl_price, !.early = r.order]
    /\ cstage' = "checks"
    /\ cbodies' = cbodies + 1
    /\ UNCHANGED <<cnow, cidx, cstill_open, ccandle, cnextkey>>

\* Second half of the loop body for positions[cidx] (lines 1633-1733): take-profit
\* check, stop-loss check, still_open.append(p), and after the last position
\* state["positions"] = still_open.  Notifications and the take-profit order are
\* network calls, so time.time() of the stop-loss check is e seconds later.
CChecks ==
    /\ cstage = "checks"
    /\ \E ok_tp \in OrderOutcomes(tp_hit(cpositions[cidx], ccandle)),
          ok_sl \in OrderOutcomes(sl_hit(cpositions[cidx], ccandle)), e \in Elapsed :
          LET p == cpositions[cidx]
              t == take_profit(p, ccandle, ok_tp, cclosed)
              r == stop_loss(p, ccandle, ok_sl, t.closed, cnow + e, csl_grace[p.key])
              still == IF r.closed THEN cstill_open ELSE Append(cstill_open, p)
          IN  /\ cnow + e <= MaxWall
              /\ cnow' = cnow + e
              /\ cclosed' = r.closed
              /\ csl_grace' = [csl_grace EXCEPT ![p.key] = r.until]
              /\ clast' = [clast EXCEPT !.pnl = @ + t.pnl + r.pnl, !.tp = t.order,
                                        !.sl = r.order, !.sl_t = cnow + e,
                                        !.granted = p.granted,
                                        !.sl_hit = sl_hit(p, ccandle), !.done = TRUE,
                                        !.kept = ~r.closed, !.qty_post = p.qty]
              /\ cstill_open' = still
              /\ IF cidx < Len(cpositions)
                 THEN /\ cidx' = cidx + 1
                      /\ cstage' = "engine"
                      /\ UNCHANGED cpositions
                 ELSE /\ cidx' = 0
                      /\ cstage' = "idle"
                      /\ cpositions' = still
    /\ UNCHANGED <<ccandle, cbodies, cnextkey>>

CloseStep == COpen \/ CBegin \/ CEngine \/ CChecks

(***************************************************************************)
(* The exit section while a stop stays breached                             *)
(* One position, one handled tick per closed candle; every candle breaches  *)
(* the stop of the position and every close order returns retCode 0.  The   *)
(* action of the Exit Engine is what evaluate returns on the candle.  Times *)
(* are kept relative to the start of the tick.                              *)
(***************************************************************************)

interval_min == 5        \* minutes per candle: the least time between two handled ticks

\* Candles that breach the stop of open_position(., side, 0): a wick through the stop,
\* a close at the stop, a close beyond it.  None of them reaches the take-profit.
BreachCandles(side) ==
    IF side = "long"
    THEN {[h |-> 4, l |-> 1, c |-> 3], [h |-> 2, l |-> 0, c |-> 1], [h |-> 1, l |-> 0, c |-> 0]}
    ELSE {[h |-> 5, l |-> 2, c |-> 3], [h |-> 6, l |-> 4, c |-> 5], [h |-> 7, l |-> 5, c |-> 6]}

\* Book, OFI and moving average seen by evaluate on a tick.
GraceEnvs == [ob_ratio : ObRatios, ofi_z : {-1, 1}, sma10 : {EntryPx}]

GraceStart ==
    /\ cpositions = <<>>
    /\ csl_grace = [k \in PosKeys |-> 0]
    /\ cnow = 0
    /\ cidx = 0
    /\ cstage = "idle"
    /\ cstill_open = <<>>
    /\ cclosed = FALSE
    /\ ccandle = NoCandle
    /\ clast = NoLast
    /\ cbodies = 0
    /\ cnextkey = 1

\* The entry path opens a position without range trailing (lines 2513-2533).
GOpen ==
    /\ cpositions = <<>>
    /\ cnextkey \in PosKeys
    /\ \E side \in {"long", "short"} :
          cpositions' = <<open_position(cnextkey, side, 0)>>
    /\ cnextkey' = cnextkey + 1
    /\ UNCHANGED <<csl_grace, cnow, cidx, cstage, cstill_open, cclosed, ccandle, clast,
                   cbodies>>

\* The exit section of a handled tick for the one position held (lines 1504-1733):
\* move to breakeven with use_move_to_be as configured (False), Exit Engine action,
\* take-profit check, stop-loss check e seconds later, still_open.  The tick before
\* it started interval_min minutes earlier.
GTick ==
    /\ Len(cpositions) = 1
    /\ \E cd \in BreachCandles(cpositions[1].side), env \in GraceEnvs, e \in Elapsed :
          LET p == move_to_be(cpositions[1], cd.c, FALSE)
              until == Max(0, csl_grace[p.key] - interval_min * 60)
              pos == [side |-> p.side, entry_price |-> EntryPx, tp_price |-> p.tp_price,
                      sl_price |-> p.sl_price, time |-> utcnow_isoformat(0),
                      risk_sl_dist |-> Abs(EntryPx - p.sl_price)]
              ctx == [price |-> cd.c, high |-> cd.h, low |-> cd.l, atr |-> 1,
                      sma10 |-> env.sma10, macd_peakout |-> FALSE,
                      ob_ratio |-> env.ob_ratio, ofi_z |-> env.ofi_z,
                      rate_usd |-> 0, regime |-> "neutral"]
              act == evaluate(pos, ctx, ExitStIdle, 0).res.action
              r == apply_exit_action(p, act, TRUE, EntryPx, 0, until, FALSE)
              t == take_profit(r.p, cd, TRUE, r.closed)
              s == stop_loss(r.p, cd, TRUE, t.closed, e, r.until)
          IN  /\ cpositions' = IF s.closed THEN <<>> ELSE <<r.p>>
              /\ csl_grace' = [csl_grace EXCEPT ![p.key] = s.until]
              /\ cnow' = e
              /\ ccandle' = cd
              /\ cclosed' = s.closed
              /\ clast' = [NoLast EXCEPT !.key = p.key, !.qty_pre = p.qty,
                                         !.pnl = r.pnl + t.pnl + s.pnl, !.act = act,
                                         !.sl_before = p.sl_price, !.sl_after = r.p.sl_price,
                                         !.early = r.order, !.tp = t.order, !.sl = s.order,
                                         !.sl_t = e, !.granted = r.p.granted,
                                         !.sl_hit = sl_hit(r.p, cd), !.done = TRUE,
                                         !.kept = ~s.closed, !.qty_post = r.p.qty]
    /\ UNCHANGED <<cidx, cstage, cstill_open, cbodies, cnextkey>>

GraceStep == GOpen \/ GTick

(***************************************************************************)
(* Persistence: save_state / load_state, src/src/main.py lines 680-696     *)
(*                                                                         *)
(* A file is [exists, data]; data is the sequence of chunks json.dump has  *)
(* written so far.  The process can stop between any two file operations.  *)
(***************************************************************************)

\* ---- bounds of the persistence model ----
MaxSaves == 3            \* save_state calls in one behaviour

NoFile == [exists |-> FALSE, data |-> <<>>]
DefaultState == [last_kline_start |-> 0, npos |-> 0]   \* load_state without a file
NoDecoded == [ok |-> FALSE, state |-> DefaultState]
NoSave == [kind |-> "none", T |-> 0, done |-> FALSE]

\* json.dump(state, f): the chunks written to f, in order.
to_json(st) == <<"{", st.last_kline_start, st.npos, "}">>

\* json.load(f): the state, or a failure on a document that is not complete.
json_load(data) ==
    IF Len(data) = 4 /\ data[1] = "{" /\ data[4] = "}"
    THEN [ok |-> TRUE, state |-> [last_kline_start |-> data[2], npos |-> data[3]]]
    ELSE NoDecoded

\* save_state writing state.json in place.
write_path_in_place == "state.json"

\* tmp = STATE_FILE + ".tmp": the file save_state opens and writes (lines 693-695).
write_path == "state.json.tmp"

SaveIdle ==
    /\ vstate = DefaultState
    /\ vfile = NoFile
    /\ vtmp = NoFile
    /\ vpc = "run"
    /\ vprev = NoDecoded
    /\ vsaving = DefaultState
    /\ vlast = NoSave
    /\ vsaves = 0

\* run_loop changes the state dict and calls save_state(state): at the end of a handled
\* tick (every skip path and the normal end, with state['last_kline_start'] = last_start)
\* or in the middle of a tick (adopted fill, SL grace), where the marker stays.
VSaveState ==
    /\ vpc = "run"
    /\ vsaves < MaxSaves
    /\ \E kind \in {"skip", "end_of_tick", "mid_tick"}, n \in {0, 1} :
          LET T == IF kind = "mid_tick" THEN vstate.last_kline_start
                   ELSE vstate.last_kline_start + 1
              st == [last_kline_start |-> T, npos |-> n]
          IN  /\ vstate' = st
              /\ vsaving' = st
              /\ vlast' = [kind |-> kind, T |-> T, done |-> FALSE]
    /\ vprev' = IF vfile.exists THEN json_load(vfile.data) ELSE NoDecoded
    /\ vsaves' = vsaves + 1
    /\ vpc' = "open"
    /\ UNCHANGED <<vfile, vtmp>>

\* open(tmp, "w"): the file is created or truncated (line 694).
VOpen ==
    /\ vpc = "open"
    /\ IF write_path = "state.json.tmp"
       THEN vtmp' = [exists |-> TRUE, data |-> <<>>] /\ UNCHANGED vfile
       ELSE vfile' = [exists |-> TRUE, data |-> <<>>] /\ UNCHANGED vtmp
    /\ vpc' = "dump"
    /\ UNCHANGED <<vstate, vprev, vsaving, vlast, vsaves>>

\* json.dump writes the next chunk; after the last one the with block closes the file
\* (line 695).
VDump ==
    /\ vpc = "dump"
    /\ LET f == IF write_path = "state.json.tmp" THEN vtmp ELSE vfile
           doc == to_json(vsaving)
           g == [f EXCEPT !.data = Append(@, doc[Len(@) + 1])]
       IN  /\ IF write_path = "state.json.tmp"
              THEN vtmp' = g /\ UNCHANGED vfile
              ELSE vfile' = g /\ UNCHANGED vtmp
           /\ vpc' = IF Len(g.data) = Len(doc) THEN "replace" ELSE "dump"
    /\ UNCHANGED <<vstate, vprev, vsaving, vlast, vsaves>>

\* os.replace(tmp, STATE_FILE): one atomic rename (line 696); save_state returns.
VReplace ==
    /\ vpc = "replace"
    /\ IF vtmp.exists
       THEN vfile' = vtmp /\ vtmp' = NoFile
       ELSE UNCHANGED <<vfile, vtmp>>
    /\ vlast' = [vlast EXCEPT !.done = TRUE]
    /\ vpc' = "run"
    /\ UNCHANGED <<vstate, vprev, vsaving, vsaves>>

\* The process dies at any point; the files stay as they are.
VCrash ==
    /\ vpc \in {"run", "open", "dump", "replace"}
    /\ vpc' = "down"
    /\ vstate' = DefaultState
    /\ UNCHANGED <<vfile, vtmp, vprev, vsaving, vlast, vsaves>>

\* The process starts again: state = load_state() (lines 680-690); json.load raising
\* on a broken state.json stops the start.
VRestart ==
    /\ vpc = "down"
    /\ IF ~vfile.exists
       THEN vstate' = DefaultState /\ vpc' = "run"
       ELSE IF json_load(vfile.data).ok
       THEN vstate' = json_load(vfile.data).state /\ vpc' = "run"
       ELSE vstate' = DefaultState /\ vpc' = "broken"
    /\ UNCHANGED <<vfile, vtmp, vprev, vsaving, vlast, vsaves>>

SaveStep == VSaveState \/ VOpen \/ VDump \/ VReplace \/ VCrash \/ VRestart

(***************************************************************************)
(* The loops of run_loop that wait: the kline retry loop (lines 1353-1368) *)
(* and the fill watch of a post-only order (lines 2315-2470)               *)
(***************************************************************************)

backoff_cap == 60        \* min(backoff * 2, 60), seconds

\* backoff = min(backoff * 2, 60) (line 1364)
next_backoff(backoff) == Min(backoff * 2, backoff_cap)

FetchIdle ==
    /\ kpc = "top"
    /\ kbackoff = 1
    /\ kslept = 0
    /\ kpolls = 0
    /\ kfilled = 0
    /\ kattempts = 0

\* while True: try: while True: (lines 1354-1357): the iteration enters the retry loop.
KTop ==
    /\ kpc = "top"
    /\ kpc' = "fetch"
    /\ UNCHANGED <<kbackoff, kslept, kpolls, kfilled, kattempts>>

\* get_klines_any returns: backoff = 1; break (lines 1359-1361); with no rows the
\* iteration sleeps one poll interval and starts over (lines 1366-1368).
KFetchOk ==
    /\ kpc = "fetch"
    /\ \E rows \in BOOLEAN : kpc' = IF rows THEN "housekeep" ELSE "top"
    /\ kbackoff' = 1
    /\ kattempts' = 1 - kattempts
    /\ UNCHANGED <<kslept, kpolls, kfilled>>

\* get_klines_any raises: time.sleep(backoff); backoff = min(backoff * 2, 60), and the
\* retry loop goes round again (lines 1362-1364).
KFetchFail ==
    /\ kpc = "fetch"
    /\ kslept' = kbackoff
    /\ kbackoff' = next_backoff(kbackoff)
    /\ kattempts' = 1 - kattempts
    /\ UNCHANGED <<kpc, kpolls, kfilled>>

\* _housekeep_sync and the rest of the tick (lines 1375-2314): the iteration ends with
\* sleep(poll_interval_sec), or a post-only order is placed and the fill watch starts.
KHousekeep ==
    /\ kpc = "housekeep"
    /\ \E placed \in BOOLEAN : kpc' = IF placed THEN "po_watch" ELSE "top"
    /\ kpolls' = 0
    /\ kfilled' = 0
    /\ UNCHANGED <<kbackoff, kslept, kattempts>>

\* One round of the fill watch (lines 2321-2470): sleep(poll_iv), read the order, leave
\* the loop on an accepted fill or once fill_timeout has passed; an exception of the
\* read leaves it too (line 2473).  fq is the cumExecQty the exchange reports.
KPoll ==
    /\ kpc = "po_watch"
    /\ \E fq \in kfilled..OrderQty, raises \in BOOLEAN :
          /\ kfilled' = fq
          /\ kpolls' = kpolls + 1
          /\ kpc' = IF raises \/ fill_accepted(fq) \/ kpolls >= PollTimeout
                    THEN "top" ELSE "po_watch"
    /\ UNCHANGED <<kbackoff, kslept, kattempts>>

FetchStep == KTop \/ KFetchOk \/ KFetchFail \/ KHousekeep \/ KPoll

(***************************************************************************)
(* Order flow of the edge engine: FlowBuckets and CVDTracker               *)
(* (src/edge_signal_pack/indicators.py) fed by _metrics_loop from the      *)
(* trade tape of the websocket client.                                     *)
(*                                                                         *)
(* Timestamps are milliseconds; quantities are whole lots.                 *)
(***************************************************************************)

\* ---- bounds of the flow model ----
FeedLen == 2             \* trades fed per round (trades[-50:])
MaxRounds == 2           \* rounds of _metrics_loop and direct calls in one behaviour

\* FlowBuckets.window_sec as the engine constructs it (OFI_WINDOW_SEC).
window_sec == 30

\* Trades the tape keeps (self.trades[-2000:]): more than one round feeds.
TapeKeep == FeedLen + 1

\* Trade timestamps: two neighbouring seconds and one more than a window later.
TradeTimes == {1000, 2000, 40000}
TradeSides == {"Buy", "Sell"}

\* The trades the exchange publishes: both sides, a trade without quantity, and a
\* trade more than a window after the others.
ExchangeTrades ==
    {[ts |-> 1000, side |-> "Buy", qty |-> 1],
     [ts |-> 1000, side |-> "Sell", qty |-> 1],
     [ts |-> 2000, side |-> "Buy", qty |-> 1],
     [ts |-> 2000, side |-> "Sell", qty |-> 0],
     [ts |-> 40000, side |-> "Sell", qty |-> 1]}

NoCvd == [value |-> 0, seq_mkt_buys |-> 0, seq_mkt_sells |-> 0, last_sec |-> -1]
NoCall == [made |-> FALSE, new_sec |-> FALSE, delta |-> 0, buys_before |-> 0,
           sells_before |-> 0]

\* The last n elements of a list: xs[-n:]
LastN(xs, n) == IF Len(xs) <= n THEN xs ELSE SubSeq(xs, Len(xs) - n + 1, Len(xs))

\* The newest trade time on the tape (0 for an empty tape).
tape_last_ts(tape) == IF Len(tape) = 0 THEN 0 ELSE tape[Len(tape)].ts

\* str(side).lower().startswith("b")
is_buy(side) == side = "Buy"

\* 1-based index of the first bucket with t >= cutoff; the last index if there is none
\* (the for loop of lines 92-95 leaves i at the last index).
first_kept(bs, cutoff) ==
    IF \E j \in DOMAIN bs : bs[j].t >= cutoff
    THEN CHOOSE j \in DOMAIN bs :
            bs[j].t >= cutoff /\ \A k \in DOMAIN bs : bs[k].t >= cutoff => j <= k
    ELSE Len(bs)

\* FlowBuckets.add_trade(ts, side, qty) (lines 53-97) on the bucket list bs.
add_trade(bs, ts, side, qty) ==
    IF qty <= 0
    THEN bs
    ELSE LET ts_sec == ts \div 1000
             n == Len(bs)
             b1 == IF n > 0 /\ bs[n].t = ts_sec
                   THEN [bs EXCEPT ![n] = [t |-> @.t,
                                           b |-> IF is_buy(side) THEN @.b + qty ELSE @.b,
                                           s |-> IF is_buy(side) THEN @.s ELSE @.s + qty]]
                   ELSE Append(bs, [t |-> ts_sec,
                                    b |-> IF is_buy(side) THEN qty ELSE 0,
                                    s |-> IF is_buy(side) THEN 0 ELSE qty])
             k == first_kept(b1, ts_sec - window_sec)
         IN  SubSeq(b1, k, Len(b1))

\* CVDTracker.on_trade that keeps the counts when a new second starts.
on_trade_no_reset(cvd, ts_ms, side, qty) ==
    LET delta == IF is_buy(side) THEN qty ELSE -qty
    IN  [value |-> cvd.value + delta,
         seq_mkt_buys |-> IF delta > 0 THEN cvd.seq_mkt_buys + 1 ELSE cvd.seq_mkt_buys,
         seq_mkt_sells |-> IF delta < 0 THEN cvd.seq_mkt_sells + 1 ELSE cvd.seq_mkt_sells,
         last_sec |-> ts_ms \div 1000]

\* CVDTracker.on_trade(ts_ms, side, qty) (lines 137-160); the EMA of value is left out:
\* nothing reads it on the way to the counters.
on_trade(cvd, ts_ms, side, qty) ==
    LET delta == IF is_buy(side) THEN qty ELSE -qty
        sec == ts_ms \div 1000
        fresh == cvd.last_sec = -1 \/ sec # cvd.last_sec
        buys0 == IF fresh THEN 0 ELSE cvd.seq_mkt_buys
        sells0 == IF fresh THEN 0 ELSE cvd.seq_mkt_sells
    IN  [value |-> cvd.value + delta,
         seq_mkt_buys |-> IF delta > 0 THEN buys0 + 1 ELSE IF delta < 0 THEN 0 ELSE buys0,
         seq_mkt_sells |-> IF delta < 0 THEN sells0 + 1 ELSE IF delta > 0 THEN 0 ELSE sells0,
         last_sec |-> sec]

\* What the last on_trade call was given: a second other than last_sec, delta, and the
\* counters it found.
call_record(cvd, ts_ms, side, qty) ==
    [made |-> TRUE,
     new_sec |-> cvd.last_sec # -1 /\ ts_ms \div 1000 # cvd.last_sec,
     delta |-> IF is_buy(side) THEN qty ELSE -qty,
     buys_before |-> cvd.seq_mkt_buys,
     sells_before |-> cvd.seq_mkt_sells]

\* The body of the for loop of _metrics_loop (lines 127-138) over the trades ds, applied
\* to st = [flow, cvd, call]: a trade with ts, side and qty > 0 goes to both trackers.
RECURSIVE feed(_, _)
feed(st, ds) ==
    IF Len(ds) = 0
    THEN st
    ELSE LET d == Head(ds)
             take == d.ts # 0 /\ d.qty > 0
             st1 == IF take
                    THEN [flow |-> add_trade(st.flow, d.ts, d.side, d.qty),
                          cvd |-> on_trade(st.cvd, d.ts, d.side, d.qty),
                          call |-> call_record(st.cvd, d.ts, d.side, d.qty)]
                    ELSE st
         IN  feed(st1, Tail(ds))

FlowIdle ==
    /\ wtrades = <<>>
    /\ fbuckets = <<>>
    /\ fcvd = NoCvd
    /\ fcall = NoCall
    /\ frounds = 0

\* BybitWS._handle_trade (bybit_ws.py lines 95-106): the exchange publishes a trade, not
\* older than the ones before it; the tape keeps its newest TapeKeep trades.  Trades
\* that arrive after the last round of a behaviour are not followed.
WHandleTrade ==
    /\ frounds < MaxRounds
    /\ \E d \in ExchangeTrades :
          /\ d.ts >= tape_last_ts(wtrades)
          /\ wtrades' = LastN(Append(wtrades, d), TapeKeep)
    /\ UNCHANGED <<fbuckets, fcvd, fcall, frounds>>

\* One round of _metrics_loop (signal_engine.py lines 117-138): the newest FeedLen trades
\* of the tape snapshot go through add_trade and on_trade.
FMetricsRound ==
    /\ frounds < MaxRounds
    /\ LET r == feed([flow |-> fbuckets, cvd |-> fcvd, call |-> fcall],
                     LastN(wtrades, FeedLen))
       IN  /\ fbuckets' = r.flow
           /\ fcvd' = r.cvd
           /\ fcall' = r.call
    /\ frounds' = frounds + 1
    /\ UNCHANGED wtrades

\* A caller of CVDTracker.on_trade with any timestamp, side and quantity.
FOnTrade ==
    /\ frounds < MaxRounds
    /\ \E ts \in TradeTimes, side \in TradeSides, qty \in {-1, 0, 1} :
          /\ fcvd' = on_trade(fcvd, ts, side, qty)
          /\ fcall' = call_record(fcvd, ts, side, qty)
    /\ frounds' = frounds + 1
    /\ UNCHANGED <<wtrades, fbuckets>>

FlowStep == WHandleTrade \/ FMetricsRound \/ FOnTrade

\* The engine as it runs: the websocket thread and _metrics_loop.
FeedStep == WHandleTrade \/ FMetricsRound

(***************************************************************************)
(* The dynamic cooldown of run_loop (main.py lines 1862-1877) and the      *)
(* helper _dynamic_cooldown_minutes (lines 395-423).                       *)
(*                                                                         *)
(* The ATR medians are whole numbers of price units; the quotient          *)
(* short / long is kept as a fraction, so round() is exact.                *)
(***************************************************************************)

\* ---- bounds of the cooldown model ----
MaxAtr == 6              \* ATR medians range over 0..MaxAtr

\* S.entry_cooldown_min, and the defaults of cooldown_min_floor and cooldown_max_cap.
entry_cooldown_min == 6
cooldown_min_floor == 5
cooldown_max_cap == 30

\* 1 / 1e-9: the divisor max(atr_long, 1e-9) when atr_long is 0.
inv_eps == 1000000000

NoCool == [made |-> FALSE, atr_short |-> 0, atr_long |-> 0, dyn_cd |-> 0, helper |-> 0]

\* round(n / d) of Python 3 for n >= 0, d > 0: to the nearest, a half to the even side.
py_round(n, d) ==
    LET q == n \div d
        r == n % d
    IN  IF 2 * r < d THEN q
        ELSE IF 2 * r > d THEN q + 1
        ELSE IF q % 2 = 0 THEN q ELSE q + 1

\* dyn_cd of run_loop, lines 1872-1877.  With atr_long = 0 the product is 0 or at least
\* inv_eps, which min(mx, .) takes as it takes any larger value.
dyn_cd(base_cd, atr_short, atr_long, mn, mx) ==
    LET scaled == IF atr_long = 0
                  THEN (IF base_cd * atr_short > 0 THEN inv_eps ELSE 0)
                  ELSE py_round(base_cd * atr_short, atr_long)
    IN  Max(mn, Min(mx, scaled))

\* _dynamic_cooldown_minutes once the history is long enough, lines 411-423.
dynamic_cooldown_minutes(base_min, sm, lm, floor_min, cap_min) ==
    IF lm = 0
    THEN base_min
    ELSE Max(floor_min, Min(cap_min, py_round(base_min * sm, lm)))

CoolIdle ==
    /\ dlast = NoCool
    /\ dprev = NoCool

\* A closed candle reaches section C of run_loop with the medians atr_short and atr_long.
DCooldown ==
    /\ \E s \in 0..MaxAtr, l \in 0..MaxAtr :
          dlast' = [made |-> TRUE, atr_short |-> s, atr_long |-> l,
                    dyn_cd |-> dyn_cd(entry_cooldown_min, s, l, cooldown_min_floor,
                                      cooldown_max_cap),
                    helper |-> dynamic_cooldown_minutes(entry_cooldown_min, s, l,
                                                        cooldown_min_floor,
                                                        cooldown_max_cap)]
    /\ dprev' = dlast

CoolStep == DCooldown

(***************************************************************************)
(* The entry guards decide_entry_guard_long and decide_entry_guard_short   *)
(* with classify_regime (src/src/flow_filters_dynamic.py) and the flow and *)
(* book metrics they read (src/src/flow_filters.py).                       *)
(*                                                                         *)
(* Units: prices and ATR in price ticks; multiples of ATR in thousandths;  *)
(* ATR% in thousandths;     RSI and ADX in points; ofi_z in tenths;        *)
(* liquidations in millions of USD; oi_drop_pct in tenths of a percent;    *)
(* book ratios in hundredths; trade values in USD; times in ms.            *)
(* Quotients are kept as fractions and compared by cross-multiplication.   *)
(***************************************************************************)

\* STRATEGY (src/src/config.py), with the getattr defaults of the guards for the
\* attributes the configuration does not define.
S == [require_close_gt_sma10_long |-> TRUE, require_close_lt_sma10_short |-> TRUE,
      guard_disable_long_in_trend_up |-> TRUE, guard_disable_short_in_trend_down |-> TRUE,
      rsi_long_min |-> 55, rsi_short_max |-> 50,
      guard_buffer_atr_base |-> 100, guard_buffer_mul_trend |-> 100,
      guard_buffer_mul_neutral |-> 60, guard_buffer_mul_range |-> 80,
      use_dynamic_buffer_by_atrp |-> TRUE, guard_buffer_atrp_ref |-> 10,
      guard_buffer_atrp_slope |-> 1, guard_buffer_atr_cap |-> 300,
      atrp_trend_min |-> 6, adx_trend_min |-> 16, atrp_range_max |-> 8,
      sma_confluence_atr_k |-> 300, adx_5m_min |-> 25, adx_15m_min |-> 20,
      adx_1h_min |-> 18, trend_gate_mode |-> "OR",
      adx_strong_min |-> 23, rsi_strong_min |-> 60, rsi_strong_max |-> 80,
      rsi_weak_max |-> 40, rsi_weak_min |-> 20, volume_expand_k |-> 13,
      cooldown_override_ofi_z |-> 32, cooldown_override_cons |-> 10,
      cooldown_override_votes |-> 5, cooldown_override_adx_min |-> 22,
      regime_override_ofi_z |-> 32, regime_override_cons |-> 10,
      regime_override_votes |-> 5, regime_override_min_triggers |-> 2,
      entry_pullback_atr |-> 250, entry_pullback_atr_trend_min |-> 350,
      entry_max_over_sma10_atr_trend |-> 1500, entry_max_over_sma10_atr_neutral |-> 700,
      entry_max_over_sma10_atr_range |-> 550,
      cap_bonus_enabled |-> TRUE, cap_bonus_votes2 |-> 50, cap_bonus_per_vote |-> 80,
      ofi_z_boost_thr |-> 20, cap_bonus_ofi_z_k |-> 6, cap_bonus_neutral_max |-> 450,
      cap_bonus_range_max |-> 300,
      use_momentum_pullback_override |-> TRUE, momentum_votes_min |-> 2,
      momentum_extra_atr_neutral |-> 300,
      use_pivot_ob_override |-> TRUE, pivot_max_dist_atr |-> 1200,
      pivot_ob_max_ratio |-> 75, pivot_min_ofi_z |-> 12,
      use_orderbook_filter |-> TRUE, ob_depth |-> 50, ob_ask_bid_max_trend |-> 140,
      ob_ask_bid_max_neutral |-> 93, ob_ask_bid_max_range |-> 80, ob_relax_band |-> 8,
      ob_override_rateS |-> 6000, ob_override_netS |-> 50000,
      flow_window_short_sec |-> 90, flow_window_long_sec |-> 180,
      flow_min_imbalance |-> 25, flow_min_count |-> 180, flow_min_consec |-> 10,
      flow_min_net_usd |-> 100000,
      pullback_override_rateS |-> 12000, pullback_override_netS |-> 120000]

\* ---- flow_filters.py ----

\* _within_window(trades, window_sec): the trades not older than the window before
\* the first trade of the list.
within_window(trades, win_sec) ==
    IF Len(trades) = 0
    THEN trades
    ELSE LET first == trades[1].time
             now_ms == IF first # 0 THEN first ELSE trades[Len(trades)].time
         IN  SelectSeq(trades, LAMBDA t : now_ms - t.time <= win_sec * 1000)

\* _usd_value(t)
usd_value(t) == t.price * t.size

\* The last trade before win[i] that is a buy or a sell decides last_side.
last_side(win, i) ==
    IF i = 1 THEN "none"
    ELSE IF win[i - 1].side \in {"buy", "sell"} THEN win[i - 1].side
    ELSE LET js == {j \in 1..(i - 1) : win[j].side \in {"buy", "sell"}}
         IN  IF js = {} THEN "none"
             ELSE win[CHOOSE j \in js : \A k \in js : k <= j].side

\* What one pass of the for loop of compute_flow_metrics adds for win[i].
flow_term(win, i) ==
    LET t == win[i]
        same == last_side(win, i) \in {"none", t.side}
    IN  IF t.side = "buy"
        THEN [net |-> usd_value(t), consec |-> IF same THEN 1 ELSE 0, imb_n |-> 1]
        ELSE IF t.side = "sell"
        THEN [net |-> -usd_value(t), consec |-> IF same THEN 1 ELSE 0, imb_n |-> -1]
        ELSE [net |-> 0, consec |-> 0, imb_n |-> 0]

\* The for loop of compute_flow_metrics over win[lo..hi]: the sums of net, consec and
\* imb_n, added up by halves.
RECURSIVE flow_loop(_, _, _)
flow_loop(win, lo, hi) ==
    IF lo > hi THEN [net |-> 0, consec |-> 0, imb_n |-> 0]
    ELSE IF lo = hi THEN flow_term(win, lo)
    ELSE LET mid == (lo + hi) \div 2
             l == flow_loop(win, lo, mid)
             r == flow_loop(win, mid + 1, hi)
         IN  [net |-> l.net + r.net, consec |-> l.consec + r.consec,
              imb_n |-> l.imb_n + r.imb_n]

\* compute_flow_metrics(trades, win_sec).  imbalance is imb_n / imb_d and rate_usd
\* is net_usd * 1000 / span_ms.
compute_flow_metrics(trades, win_sec) ==
    LET win == within_window(trades, win_sec)
        cnt == Len(win)
    IN  IF cnt = 0
        THEN [count |-> 0, consec |-> 0, imb_n |-> 0, imb_d |-> 1, net_usd |-> 0,
              span_ms |-> 1000]
        ELSE LET ms_span == Max(1, win[1].time - win[cnt].time)
                 r == flow_loop(win, 1, cnt)
             IN  [count |-> cnt, consec |-> r.consec,
                  imb_n |-> Max(-cnt, Min(cnt, r.imb_n)), imb_d |-> cnt,
                  net_usd |-> r.net, span_ms |-> Max(1000, ms_span)]

\* fm["rate_usd"] >= thr and abs(fm["rate_usd"]) >= thr
rate_at_least(fm, thr) == fm.net_usd * 1000 >= thr * fm.span_ms
abs_rate_at_least(fm, thr) == Abs(fm.net_usd) * 1000 >= thr * fm.span_ms

\* sum(p*q for p, q in levels)
RECURSIVE side_sum(_)
side_sum(levels) ==
    IF Len(levels) = 0 THEN 0
    ELSE levels[1].p * levels[1].q + side_sum(Tail(levels))

\* compute_wall_pressure(book, depth): the ratio ask_sum / bid_sum as num / den.
compute_wall_pressure(book, depth) ==
    LET ask_sum == side_sum(SubSeq(book.a, 1, Min(depth, Len(book.a))))
        bid_sum == side_sum(SubSeq(book.b, 1, Min(depth, Len(book.b))))
    IN  IF bid_sum > 0 THEN [num |-> ask_sum, den |-> bid_sum]
        ELSE [num |-> 0, den |-> 1]

\* ---- the inputs of the guards ----

\* n trades of one side, the newest first, gap_ms apart, each of 10 units at 100 USD.
TradeRun(side, n, gap_ms) ==
    [i \in 1..n |-> [side |-> side, price |-> 100, size |-> 10,
                     time |-> 1000000 - (i - 1) * gap_ms]]

TapeNames == {"none", "buy_slow", "buy_fast", "sell_slow", "sell_fast"}

\* n trades of one side and size, 50 ms apart, the newest age_ms before the newest
\* trade of the list they are part of.
TradeBurst(side, n, size, age_ms) ==
    [i \in 1..n |-> [side |-> side, price |-> 100, size |-> size,
                     time |-> 1000000 - age_ms - (i - 1) * 50]]

\* Sell-side trade lists that miss one threshold of the baseline, or whose two
\* windows differ:
\*   sell_few      150 sells (count below flow_min_count)
\*   sell_small    200 sells of 4 units (net USD below flow_min_net_usd)
\*   sell_minority 80 sells of 40 units after 120 buys (imbalance on the buy side)
\*   sell_fresh    200 sells, and 150 buys 100 s earlier (outside the short window)
\*   sell_stale    100 sells, and 100 sells 100 s earlier (outside the short window)
SellTape(name) ==
    IF name = "sell_few" THEN TradeBurst("sell", 150, 10, 0)
    ELSE IF name = "sell_small" THEN TradeBurst("sell", 200, 4, 0)
    ELSE IF name = "sell_minority"
    THEN TradeBurst("sell", 80, 40, 0) \o TradeBurst("buy", 120, 10, 4000)
    ELSE IF name = "sell_fresh"
    THEN TradeBurst("sell", 200, 10, 0) \o TradeBurst("buy", 150, 10, 100000)
    ELSE TradeBurst("sell", 100, 10, 0) \o TradeBurst("sell", 100, 10, 100000)

SellTapes == {"sell_few", "sell_small", "sell_minority", "sell_fresh", "sell_stale"}
BuyTapes == {"buy_few", "buy_small", "buy_minority", "buy_fresh", "buy_stale"}
BaselineTapes == {"none", "buy_fast", "sell_fast"} \cup SellTapes \cup BuyTapes
AllTapes == TapeNames \cup BaselineTapes

\* The sell-side list of the same shape as a buy-side list.
SellName(name) ==
    IF name = "buy_few" THEN "sell_few"
    ELSE IF name = "buy_small" THEN "sell_small"
    ELSE IF name = "buy_minority" THEN "sell_minority"
    ELSE IF name = "buy_fresh" THEN "sell_fresh"
    ELSE "sell_stale"

\* A trade list with the sides exchanged.
Flip(trades) ==
    [i \in DOMAIN trades |->
        [trades[i] EXCEPT !.side = IF trades[i].side = "buy" THEN "sell" ELSE "buy"]]

\* Trade lists: none, 200 trades of one side within 80 s (slow) or 10 s (fast), and
\* the lists of the baseline.
Tape(name) ==
    IF name = "buy_slow" THEN TradeRun("buy", 200, 400)
    ELSE IF name = "buy_fast" THEN TradeRun("buy", 200, 50)
    ELSE IF name = "sell_slow" THEN TradeRun("sell", 200, 400)
    ELSE IF name = "sell_fast" THEN TradeRun("sell", 200, 50)
    ELSE IF name \in SellTapes THEN SellTape(name)
    ELSE IF name \in BuyTapes THEN Flip(SellTape(SellName(name)))
    ELSE <<>>

BookNames == {"none", "ask_heavy", "bid_heavy"}

\* Books: empty, and one level a side with twice the size on one of them.
Book(name) ==
    IF name = "ask_heavy"
    THEN [a |-> <<[p |-> 1001, q |-> 4]>>, b |-> <<[p |-> 999, q |-> 2]>>]
    ELSE IF name = "bid_heavy"
    THEN [a |-> <<[p |-> 1001, q |-> 2]>>, b |-> <<[p |-> 999, q |-> 4]>>]
    ELSE [a |-> <<>>, b |-> <<>>]

\* fm_s taken over the long window.
FlowShort_long_window ==
    [name \in AllTapes |-> compute_flow_metrics(Tape(name), S.flow_window_long_sec)]
\* fm_s and fm_l of the guards for each trade list, and the book ratio of each book.
FlowShort ==
    [name \in AllTapes |-> compute_flow_metrics(Tape(name), S.flow_window_short_sec)]
FlowLong ==
    [name \in AllTapes |-> compute_flow_metrics(Tape(name), S.flow_window_long_sec)]
WallPressure == [name \in BookNames |-> compute_wall_pressure(Book(name), S.ob_depth)]

\* ---- flow_filters_dynamic.py ----

\* _calc_guard_buffer_k(regime, atr, price): k as num / den thousandths.
calc_guard_buffer_k(regime, atr, price) ==
    LET mul == IF regime \in {"trend_up", "trend_down"} THEN S.guard_buffer_mul_trend
               ELSE IF regime = "range" THEN S.guard_buffer_mul_range
               ELSE S.guard_buffer_mul_neutral
        k0 == (S.guard_buffer_atr_base * mul) \div 100
        ref == S.guard_buffer_atrp_ref
        widen == /\ S.use_dynamic_buffer_by_atrp
                 /\ price > 0
                 /\ atr >= 0
                 /\ atr * 1000 > ref * price
                 /\ ref > 0
        \* k * (1 + slope * (atrp - ref) / ref), atrp = atr / price
        num == IF widen
               THEN k0 * (ref * price + S.guard_buffer_atrp_slope * (atr * 1000 - ref * price))
               ELSE k0
        den == IF widen THEN ref * price ELSE 1
    IN  IF num > S.guard_buffer_atr_cap * den
        THEN [num |-> S.guard_buffer_atr_cap, den |-> 1]
        ELSE [num |-> num, den |-> den]

\* classify_regime(ctx) for a ctx with the 5m fields only: without volume fields the
\* liquidity gate is open, without 15m and 1h fields adx_15 and adx_1h are 0.
classify_regime(ctx) ==
    LET price == IF ctx.price # 0 THEN ctx.price ELSE 1
        atr == ctx.atr
        s10 == ctx.sma10
        s50 == ctx.sma50
        is_range == /\ atr * 1000 <= S.atrp_range_max * price
                    /\ Abs(s10 - s50) * 1000 <= S.sma_confluence_atr_k * atr
        adx_15 == 0
        adx_1h == 0
        m5_up == ctx.adx >= S.adx_5m_min /\ s10 > s50
        m5_down == ctx.adx >= S.adx_5m_min /\ s10 < s50
        m15_up == adx_15 >= S.adx_15m_min /\ s10 > s50
        m15_down == adx_15 >= S.adx_15m_min /\ s10 < s50
        h1_up == adx_1h >= S.adx_1h_min /\ s10 > s50
        h1_down == adx_1h >= S.adx_1h_min /\ s10 < s50
        align_up == m5_up /\ (m15_up \/ h1_up)
        align_down == m5_down /\ (m15_down \/ h1_down)
        atr_gate == atr * 1000 >= S.atrp_trend_min * price
        adx_gate == ctx.adx >= S.adx_trend_min
        gate_trend == IF S.trend_gate_mode = "AND" THEN atr_gate /\ adx_gate
                      ELSE IF S.trend_gate_mode = "ADX" THEN adx_gate
                      ELSE IF S.trend_gate_mode = "ATR" THEN atr_gate
                      ELSE atr_gate \/ adx_gate
        up_dir == (s10 > s50 /\ ctx.macd >= ctx.macd_sig) \/ align_up
        down_dir == (s10 < s50 /\ ctx.macd <= ctx.macd_sig) \/ align_down
    IN  IF is_range THEN "range"
        ELSE IF gate_trend /\ up_dir /\ ~down_dir THEN "trend_up"
        ELSE IF gate_trend /\ down_dir /\ ~up_dir THEN "trend_down"
        ELSE "neutral"

\* _is_bear_regime, _is_capitulation_long, _is_capitulation_short
is_bear_regime(ctx) == ctx.sma10 < ctx.sma50 /\ ctx.macd < ctx.macd_sig
\* _is_capitulation_long that does not look at the open interest.
is_capitulation_long_no_oi(ctx) ==
    ctx.ofi_z >= 20 /\ ctx.liq_short_usd >= 3
is_capitulation_long(ctx) ==
    ctx.ofi_z >= 20 /\ ctx.liq_short_usd >= 3 /\ ctx.oi_drop_pct <= -7
is_capitulation_short(ctx) ==
    ctx.ofi_z <= -20 /\ ctx.liq_long_usd >= 3 /\ ctx.oi_drop_pct <= -7

\* should_allow_override(regime, side)
should_allow_override(regime, side) ==
    IF regime = "trend_up" /\ side # "LONG" THEN FALSE
    ELSE IF regime = "trend_down" /\ side # "SHORT" THEN FALSE
    ELSE TRUE

\* k_cap_base that gives every regime the cap of the trend regimes.
k_cap_base_trend_everywhere(regime) == S.entry_max_over_sma10_atr_trend

\* k_cap_base of both guards
k_cap_base(regime) ==
    IF regime \in {"trend_up", "trend_down"} THEN S.entry_max_over_sma10_atr_trend
    ELSE IF regime = "range" THEN S.entry_max_over_sma10_atr_range
    ELSE S.entry_max_over_sma10_atr_neutral

\* bonus of both guards; ofi_excess is the OFI z beyond ofi_z_boost_thr on the side of
\* the guard (0 when it is not beyond).
cap_bonus(regime, votes, ofi_excess) ==
    IF S.cap_bonus_enabled /\ regime # "trend_up"
    THEN LET raw == (IF votes >= 2 THEN S.cap_bonus_votes2 ELSE 0)
                    + (IF votes >= 3 THEN (votes - 2) * S.cap_bonus_per_vote ELSE 0)
                    + ofi_excess * S.cap_bonus_ofi_z_k
             bonus_max == IF regime = "range" THEN S.cap_bonus_range_max
                          ELSE S.cap_bonus_neutral_max
         IN  Min(raw, bonus_max)
    ELSE 0

\* alpha of both guards: widened in trend_up
pullback_alpha(regime) ==
    IF regime = "trend_up"
    THEN Max(S.entry_pullback_atr, S.entry_pullback_atr_trend_min)
    ELSE S.entry_pullback_atr

\* The tags of the message of a guard.
relax_trend(regime) ==
    IF pullback_alpha(regime) > S.entry_pullback_atr THEN <<"trend_widen">> ELSE <<>>

\* decide_entry_guard_long(trades, book, ctx, S): [ok, why, relax].  trades and book
\* are the names of a trade list and of a book; FlowShort and WallPressure hold what
\* compute_flow_metrics and compute_wall_pressure return for them.  St is the settings
\* object the caller passes (the parameter S of the source, config.S by default).
decide_entry_guard_long(trades, book, ctx, St) ==
    LET price == ctx.price
        s10 == ctx.sma10
        atr == ctx.atr
        regime == classify_regime(ctx)
        kg == calc_guard_buffer_k(regime, atr, price)
        guard_on == /\ St.require_close_gt_sma10_long
                    /\ ~(regime = "trend_up" /\ St.guard_disable_long_in_trend_up)
        \* price < gma - k_guard * atr
        below_guard == (s10 - price) * 1000 * kg.den > kg.num * atr
        alpha == pullback_alpha(regime)
        tags0 == relax_trend(regime)
        d == price - s10
        votes == ctx.edge_votes
        ofi_z == ctx.ofi_z
        bonus == cap_bonus(regime, votes,
                           IF ofi_z >= St.ofi_z_boost_thr THEN ofi_z - St.ofi_z_boost_thr
                           ELSE 0)
        k_cap_dyn == k_cap_base(regime) + Max(0, bonus)
        fm_s == FlowShort[trades]
        ob == WallPressure[book]
        regime_ok == should_allow_override(regime, "LONG")
        above_target == d * 1000 > alpha * atr
        allow_by_flow == /\ rate_at_least(fm_s, St.pullback_override_rateS)
                         /\ fm_s.net_usd >= St.pullback_override_netS
        extra == IF regime = "neutral" THEN St.momentum_extra_atr_neutral ELSE 0
        allow_by_momentum == /\ St.use_momentum_pullback_override
                             /\ votes >= St.momentum_votes_min
                             /\ d * 1000 <= (k_cap_dyn + extra) * atr
        pivot == /\ regime_ok
                 /\ d * 1000 <= St.pivot_max_dist_atr * atr
                 /\ ob.num * 100 <= St.pivot_ob_max_ratio * ob.den
                 /\ ofi_z >= St.pivot_min_ofi_z
                 /\ votes >= 2
        pull == IF ~above_target THEN "pass"
                ELSE IF allow_by_flow /\ regime_ok THEN "strong_flow_override"
                ELSE IF allow_by_momentum /\ regime_ok THEN "momentum_override"
                ELSE IF ~St.use_pivot_ob_override THEN "pass"
                ELSE IF pivot THEN "pivot_ob_override"
                ELSE "reject"
        tags1 == IF pull \in {"pass", "reject"} THEN tags0 ELSE Append(tags0, pull)
        base_max == IF regime = "trend_up" THEN St.ob_ask_bid_max_trend
                    ELSE IF regime = "range" THEN St.ob_ask_bid_max_range
                    ELSE St.ob_ask_bid_max_neutral
        ob_ok == ob.num * 100 <= (base_max + St.ob_relax_band) * ob.den
        ob_override == /\ rate_at_least(fm_s, St.ob_override_rateS)
                       /\ fm_s.net_usd >= St.ob_override_netS
                       /\ regime_ok
        ob_checked == St.use_orderbook_filter /\ ~ob_ok
        tags2 == IF ob_checked /\ ob_override
                 THEN Append(tags1, "ob_strong_flow_override") ELSE tags1
        flow_ok == /\ fm_s.count >= St.flow_min_count
                   /\ fm_s.consec >= St.flow_min_consec
                   /\ fm_s.imb_n * 100 >= St.flow_min_imbalance * fm_s.imb_d
                   /\ fm_s.net_usd >= St.flow_min_net_usd
    IN  IF guard_on /\ below_guard THEN [ok |-> FALSE, why |-> "guard", relax |-> <<>>]
        ELSE IF ctx.rsi < St.rsi_long_min THEN [ok |-> FALSE, why |-> "rsi", relax |-> <<>>]
        ELSE IF is_bear_regime(ctx)
        THEN IF is_capitulation_long(ctx)
             THEN [ok |-> TRUE, why |-> "capitulation_long", relax |-> <<>>]
             ELSE [ok |-> FALSE, why |-> "bear", relax |-> <<>>]
        ELSE IF pull = "reject" THEN [ok |-> FALSE, why |-> "pullback", relax |-> tags0]
        ELSE IF d * 1000 > k_cap_dyn * atr
        THEN [ok |-> FALSE, why |-> "cap",
              relax |-> IF bonus > 0 THEN Append(tags1, "cap_bonus") ELSE tags1]
        ELSE IF ob_checked /\ ~ob_override THEN [ok |-> FALSE, why |-> "ob", relax |-> <<>>]
        ELSE IF ~flow_ok THEN [ok |-> FALSE, why |-> "flow", relax |-> tags2]
        ELSE [ok |-> TRUE, why |-> "OK", relax |-> tags2]

\* decide_entry_guard_short(trades, book, ctx, S): [ok, why, relax], on the names of a
\* trade list and of a book as in decide_entry_guard_long.
decide_entry_guard_short(trades, book, ctx, St) ==
    LET price == ctx.price
        s10 == ctx.sma10
        atr == ctx.atr
        regime == classify_regime(ctx)
        kg == calc_guard_buffer_k(regime, atr, price)
        guard_on == /\ St.require_close_lt_sma10_short
                    /\ ~(regime = "trend_down" /\ St.guard_disable_short_in_trend_down)
        \* price > gma + k_guard * atr
        above_guard == (price - s10) * 1000 * kg.den > kg.num * atr
        alpha == pullback_alpha(regime)
        tags0 == relax_trend(regime)
        d == s10 - price
        votes == ctx.edge_votes
        ofi_z == ctx.ofi_z
        bonus == cap_bonus(regime, votes,
                           IF ofi_z <= -St.ofi_z_boost_thr
                           THEN Abs(ofi_z) - St.ofi_z_boost_thr ELSE 0)
        k_cap_dyn == k_cap_base(regime) + Max(0, bonus)
        fm_s == FlowShort[trades]
        ob == WallPressure[book]
        regime_ok == should_allow_override(regime, "SHORT")
        below_target == d * 1000 > alpha * atr
        allow_by_flow == /\ abs_rate_at_least(fm_s, St.pullback_override_rateS)
                         /\ fm_s.net_usd <= -St.pullback_override_netS
        extra == IF regime = "neutral" THEN St.momentum_extra_atr_neutral ELSE 0
        allow_by_momentum == /\ St.use_momentum_pullback_override
                             /\ votes >= St.momentum_votes_min
                             /\ d * 1000 <= (k_cap_dyn + extra) * atr
        \* ob_ratio >= 1 / pivot_ob_max_ratio
        pivot == /\ regime_ok
                 /\ d * 1000 <= St.pivot_max_dist_atr * atr
                 /\ ob.num * St.pivot_ob_max_ratio >= 100 * ob.den
                 /\ ofi_z <= -St.pivot_min_ofi_z
                 /\ votes >= 2
        pull == IF ~below_target THEN "pass"
                ELSE IF allow_by_flow /\ regime_ok THEN "strong_flow_override"
                ELSE IF allow_by_momentum /\ regime_ok THEN "momentum_override"
                ELSE IF ~St.use_pivot_ob_override THEN "pass"
                ELSE IF pivot THEN "pivot_ob_override"
                ELSE "reject"
        tags1 == IF pull \in {"pass", "reject"} THEN tags0 ELSE Append(tags0, pull)
        base_max == IF regime \in {"trend_up", "trend_down"} THEN St.ob_ask_bid_max_trend
                    ELSE IF regime = "range" THEN St.ob_ask_bid_max_range
                    ELSE St.ob_ask_bid_max_neutral
        \* 1 / ob_ratio <= base_max + relax, infinite for ob_ratio = 0
        ob_ok == ob.num > 0 /\ ob.den * 100 <= (base_max + St.ob_relax_band) * ob.num
        ob_override == /\ abs_rate_at_least(fm_s, St.ob_override_rateS)
                       /\ fm_s.net_usd <= -St.ob_override_netS
                       /\ regime_ok
        ob_checked == St.use_orderbook_filter /\ ~ob_ok
        tags2 == IF ob_checked /\ ob_override
                 THEN Append(tags1, "ob_strong_flow_override") ELSE tags1
        flow_ok == /\ fm_s.count >= St.flow_min_count
                   /\ fm_s.consec >= St.flow_min_consec
                   /\ fm_s.imb_n * 100 <= -St.flow_min_imbalance * fm_s.imb_d
                   /\ fm_s.net_usd <= -St.flow_min_net_usd
    IN  IF guard_on /\ above_guard THEN [ok |-> FALSE, why |-> "guard", relax |-> <<>>]
        ELSE IF ctx.rsi > St.rsi_short_max THEN [ok |-> FALSE, why |-> "rsi", relax |-> <<>>]
        ELSE IF pull = "reject" THEN [ok |-> FALSE, why |-> "pullback", relax |-> tags0]
        ELSE IF d * 1000 > k_cap_dyn * atr THEN [ok |-> FALSE, why |-> "cap", relax |-> tags1]
        ELSE IF ob_checked /\ ~ob_override THEN [ok |-> FALSE, why |-> "ob", relax |-> <<>>]
        ELSE IF ~flow_ok THEN [ok |-> FALSE, why |-> "flow", relax |-> tags2]
        ELSE [ok |-> TRUE, why |-> "OK", relax |-> tags2]

\* The contexts of the model: sma10 at 1000 ticks, the other values around it.
Contexts ==
    [price : {988, 998, 1000, 1002, 1012}, sma10 : {1000}, sma50 : {995, 998, 1002, 1005},
     atr : {7, 12, 15}, adx : {20}, rsi : {40, 47, 53, 60}, macd : {-1, 1}, macd_sig : {0},
     ofi_z : {-25, 0, 25}, edge_votes : {0, 4},
     liq_short_usd : {3}, liq_long_usd : {3}, oi_drop_pct : {-7, 0}]

\* The settings of a guard call: config.S with use_pivot_ob_override as the call has it.
GuardSettings(call) == [S EXCEPT !.use_pivot_ob_override = call.use_pivot_ob_override]

NoGuardCall == [side |-> "none", tape |-> "none", book |-> "none", ctx |-> <<>>,
                use_pivot_ob_override |-> TRUE]
NoGuardResult == [ok |-> FALSE, why |-> "none", relax |-> <<>>]

GuardIdle ==
    /\ gcall = NoGuardCall
    /\ gres = NoGuardResult

\* A closed candle with any trade list, book and ctx of the model, under a
\* configuration with the pivot order-book override switched on or off.
GuardStart ==
    /\ gcall \in [side : {"none"}, tape : TapeNames, book : BookNames, ctx : Contexts,
                  use_pivot_ob_override : BOOLEAN]
    /\ gres = NoGuardResult

\* run_loop asks the guard of the signalled side (main.py lines 2012-2016).
GGuardLong ==
    /\ gcall' = [gcall EXCEPT !.side = "LONG"]
    /\ gres' = decide_entry_guard_long(gcall.tape, gcall.book, gcall.ctx,
                                     GuardSettings(gcall))

GGuardShort ==
    /\ gcall' = [gcall EXCEPT !.side = "SHORT"]
    /\ gres' = decide_entry_guard_short(gcall.tape, gcall.book, gcall.ctx,
                                      GuardSettings(gcall))

GuardStep == GGuardLong \/ GGuardShort

\* The contexts of the calls that look at the flow baseline.
BaselineContexts ==
    [price : {988, 998, 1002, 1012}, sma10 : {1000}, sma50 : {995, 1005},
     atr : {7, 12}, adx : {20}, rsi : {40, 60}, macd : {-1, 1}, macd_sig : {0},
     ofi_z : {-25, 25}, edge_votes : {0, 4},
     liq_short_usd : {3}, liq_long_usd : {3}, oi_drop_pct : {-7, 0}]

\* A closed candle with a trade list of the baseline.
BaselineStart ==
    /\ gcall \in [side : {"none"}, tape : BaselineTapes, book : BookNames,
                  ctx : BaselineContexts, use_pivot_ob_override : BOOLEAN]
    /\ gres = NoGuardResult

(***************************************************************************)
(* classify_regime on a ctx dictionary that keeps what the calls write      *)
(* (src/src/flow_filters_dynamic.py lines 160-310).                         *)
(*                                                                         *)
(* The ctx holds the 5m keys price, atr, adx, sma10, sma50, macd, macd_sig, *)
(* rsi, the volume keys volume, volume_24h_avg, vol_ma, price_5m_ago, the   *)
(* 15m keys adx_15m, ema9_15m, ema21_15m and btc_correlation (hundredths).  *)
(* ema9 is -1 when the key is not there (the code falls back to sma10); it  *)
(* has no ema21 (the code falls back to sma50), no 1h                       *)
(* keys (adx_1h falls back to 0), no ema50 / sma200, no Bollinger width and *)
(* no MACD histogram (their score terms are False).  The keys the function  *)
(* writes are part of the record; a key that is not in the dictionary has   *)
(* the value "absent", -1, FALSE or NoFloat.                                *)
(***************************************************************************)
MaxClassify == 2

NoFloat == [num |-> 0, den |-> 0]

\* The keys classify_regime writes, before any call.
FreshSideChannel ==
    [low_liquidity |-> FALSE, mtf_align |-> "absent", strong_score_up |-> -1,
     strong_score_down |-> -1, sudden_move |-> FALSE, price_change_5m |-> NoFloat,
     high_correlation |-> FALSE, btc_correlation_value |-> 0]

\* The same keys as an earlier candle's evaluation left them.
StaleSideChannel ==
    [low_liquidity |-> TRUE, mtf_align |-> "up", strong_score_up |-> 6,
     strong_score_down |-> 1, sudden_move |-> TRUE,
     price_change_5m |-> [num |-> 50, den |-> 1000],
     high_correlation |-> TRUE, btc_correlation_value |-> 95]

RegimeInputs ==
    [price : {1000}, price_5m_ago : {960, 1000}, atr : {7, 12}, adx : {15, 24, 30},
     sma10 : {1000}, sma50 : {990, 998, 1005}, macd : {-1, 1}, macd_sig : {0},
     rsi : {30, 50, 65}, volume : {20, 100, 200}, volume_24h_avg : {0, 100},
     vol_ma : {100}, adx_15m : {0, 22}, ema9_15m : {1001}, ema21_15m : {999, 1003},
     btc_correlation : {50, 90}, ema9 : {-1, 1010}]

\* d1 with the keys of d2 added (d2 wins on a common key).
Merge(d1, d2) ==
    [k \in DOMAIN d1 \cup DOMAIN d2 |-> IF k \in DOMAIN d2 THEN d2[k] ELSE d1[k]]

\* ema9_5 of classify_regime: _g("ema9", _g("sma10", s10))
ema9_5(ctx) == IF ctx.ema9 # -1 THEN ctx.ema9 ELSE ctx.sma10

\* The strength scores with the sum that adds a score already in the ctx.
strong_scores_accumulating(ctx, sudden_move) ==
    LET adx_strong == ctx.adx >= S.adx_strong_min
        ma_up == ema9_5(ctx) > ctx.sma50
        ma_down == ema9_5(ctx) < ctx.sma50
        vol_exp == ctx.vol_ma > 0 /\ ctx.volume * 10 > ctx.vol_ma * S.volume_expand_k
        rsi_up == ctx.rsi >= S.rsi_strong_min /\ ctx.rsi <= S.rsi_strong_max
        rsi_down == ctx.rsi <= S.rsi_weak_max /\ ctx.rsi >= S.rsi_weak_min
        b(x) == IF x THEN 1 ELSE 0
        up == b(adx_strong) + b(ma_up) + b(rsi_up) + b(vol_exp) + Max(0, ctx.strong_score_up)
        down == b(adx_strong) + b(ma_down) + b(rsi_down) + b(vol_exp)
                + Max(0, ctx.strong_score_down)
    IN  [up |-> Min(up + b(sudden_move), 6), down |-> Min(down + b(sudden_move), 6)]

\* The strength scores (lines 241-278): one point per condition, one more on a sudden
\* move, at most 6 then.
strong_scores(ctx, sudden_move) ==
    LET adx_strong == ctx.adx >= S.adx_strong_min
        ma_up == ema9_5(ctx) > ctx.sma50
        ma_down == ema9_5(ctx) < ctx.sma50
        vol_exp == ctx.vol_ma > 0 /\ ctx.volume * 10 > ctx.vol_ma * S.volume_expand_k
        rsi_up == ctx.rsi >= S.rsi_strong_min /\ ctx.rsi <= S.rsi_strong_max
        rsi_down == ctx.rsi <= S.rsi_weak_max /\ ctx.rsi >= S.rsi_weak_min
        b(x) == IF x THEN 1 ELSE 0
        up == b(adx_strong) + b(ma_up) + b(rsi_up) + b(vol_exp)
        down == b(adx_strong) + b(ma_down) + b(rsi_down) + b(vol_exp)
    IN  IF sudden_move THEN [up |-> Min(up + 1, 6), down |-> Min(down + 1, 6)]
        ELSE [up |-> up, down |-> down]

\* The returns of classify_regime with the trend test ahead of the range test.
regime_of_trend_first(is_range, gate_trend, up_dir, down_dir) ==
    IF gate_trend /\ up_dir /\ ~down_dir THEN "trend_up"
    ELSE IF gate_trend /\ down_dir /\ ~up_dir THEN "trend_down"
    ELSE IF is_range THEN "range"
    ELSE "neutral"

\* The returns of classify_regime once the liquidity gate is passed (lines 199-205
\* and 304-310): range first, then the gated single direction, else neutral.
regime_of(is_range, gate_trend, up_dir, down_dir) ==
    IF is_range THEN "range"
    ELSE IF gate_trend /\ up_dir /\ ~down_dir THEN "trend_up"
    ELSE IF gate_trend /\ down_dir /\ ~up_dir THEN "trend_down"
    ELSE "neutral"

\* classify_regime(ctx) with its writes: [regime, ctx], ctx being the dictionary after
\* the call.
classify_regime_ctx(ctx) ==
    LET price == IF ctx.price # 0 THEN ctx.price ELSE 1
        atr == ctx.atr
        adx == ctx.adx
        s10 == ctx.sma10
        s50 == ctx.sma50
        low_liquidity == /\ ctx.volume_24h_avg > 0
                         /\ ctx.volume * 10 < ctx.volume_24h_avg * 3
        is_range == /\ atr * 1000 <= S.atrp_range_max * price
                    /\ Abs(s10 - s50) * 1000 <= S.sma_confluence_atr_k * atr
        p5 == IF ctx.price_5m_ago # 0 THEN ctx.price_5m_ago ELSE 1
        price_change_5m == [num |-> Abs(price - ctx.price_5m_ago), den |-> p5]
        sudden_move == price_change_5m.num * 100 > 3 * price_change_5m.den
        adx_1h == 0
        m5_up == adx >= S.adx_5m_min /\ ema9_5(ctx) > s50
        m5_down == adx >= S.adx_5m_min /\ ema9_5(ctx) < s50
        m15_up == ctx.adx_15m >= S.adx_15m_min /\ ctx.ema9_15m > ctx.ema21_15m
        m15_down == ctx.adx_15m >= S.adx_15m_min /\ ctx.ema9_15m < ctx.ema21_15m
        h1_up == adx_1h >= S.adx_1h_min /\ ema9_5(ctx) > s50
        h1_down == adx_1h >= S.adx_1h_min /\ ema9_5(ctx) < s50
        align_up == m5_up /\ (m15_up \/ h1_up)
        align_down == m5_down /\ (m15_down \/ h1_down)
        score == strong_scores(ctx, sudden_move)
        correlated == Abs(ctx.btc_correlation) > 70
        atr_gate == atr * 1000 >= S.atrp_trend_min * price
        adx_gate == adx >= S.adx_trend_min
        gate_trend == IF S.trend_gate_mode = "AND" THEN atr_gate /\ adx_gate
                      ELSE IF S.trend_gate_mode = "ADX" THEN adx_gate
                      ELSE IF S.trend_gate_mode = "ATR" THEN atr_gate
                      ELSE atr_gate \/ adx_gate
        up_dir == (s10 > s50 /\ ctx.macd >= ctx.macd_sig) \/ align_up
        down_dir == (s10 < s50 /\ ctx.macd <= ctx.macd_sig) \/ align_down
        zeroed == [mtf_align |-> "none", strong_score_up |-> 0, strong_score_down |-> 0]
        moved == IF sudden_move
                 THEN [sudden_move |-> TRUE, price_change_5m |-> price_change_5m]
                 ELSE <<>>
        scored == [mtf_align |-> IF align_up THEN "up"
                                 ELSE IF align_down THEN "down" ELSE "none",
                   strong_score_up |-> score.up, strong_score_down |-> score.down]
        corr == IF correlated
                THEN [high_correlation |-> TRUE,
                      btc_correlation_value |-> ctx.btc_correlation]
                ELSE <<>>
    IN  IF low_liquidity
        THEN [regime |-> "neutral",
              ctx |-> Merge(ctx, Merge([low_liquidity |-> TRUE], zeroed))]
        ELSE IF regime_of(is_range, gate_trend, up_dir, down_dir) = "range"
        THEN [regime |-> "range", ctx |-> Merge(ctx, zeroed)]
        ELSE [regime |-> regime_of(is_range, gate_trend, up_dir, down_dir),
              ctx |-> Merge(Merge(Merge(ctx, moved), scored), corr)]

RegimeIdle ==
    /\ rctx = <<>>
    /\ rret = <<>>

\* A ctx of the model, with the written keys not there yet or left by an earlier
\* candle.
RegimeStart ==
    /\ \E inp \in RegimeInputs : \E side \in {FreshSideChannel, StaleSideChannel} :
          rctx = Merge(inp, side)
    /\ rret = <<>>

\* One call classify_regime(ctx) on the dictionary as the calls before left it.
RClassify ==
    /\ Len(rret) < MaxClassify
    /\ LET r == classify_regime_ctx(rctx)
       IN  /\ rctx' = r.ctx
           /\ rret' = Append(rret, r)

RegimeStep == RClassify

(***************************************************************************)
(* order_book_imbalance (src/edge_signal_pack/indicators.py lines 33-39).   *)
(* A book side is a list of <<price, size>>; the returned float is kept as  *)
(* the fraction num / den, 0.0 being 0 / 1.                                 *)
(***************************************************************************)
MaxDepth == 2

BookSizes == {0, 2, 3, 5, 10}

\* The lists of at most MaxDepth levels, prices going away from first (step -1 for
\* bids, +1 for asks).
BookSide(first, step) ==
    {<<>>}
    \cup UNION {{[i \in 1..n |-> <<first + step * (i - 1), sz[i]>>] :
                    sz \in [1..n -> BookSizes]} : n \in 1..MaxDepth}

\* xs[:n] for n >= 0
Slice(xs, n) == SubSeq(xs, 1, Min(n, Len(xs)))

\* sum(x[1] for x in xs)
RECURSIVE sum_sizes(_)
sum_sizes(xs) == IF xs = <<>> THEN 0 ELSE xs[1][2] + sum_sizes(Tail(xs))

\* order_book_imbalance that sums every level of the lists.
order_book_imbalance_all_levels(bids, asks, levels) ==
    LET b == sum_sizes(bids)
        a == sum_sizes(asks)
    IN  IF b + a = 0 THEN [num |-> 0, den |-> 1] ELSE [num |-> b - a, den |-> b + a]

order_book_imbalance(bids, asks, levels) ==
    LET b == sum_sizes(Slice(bids, levels))
        a == sum_sizes(Slice(asks, levels))
    IN  IF b + a = 0 THEN [num |-> 0, den |-> 1] ELSE [num |-> b - a, den |-> b + a]

NoBook == [bids |-> <<>>, asks |-> <<>>]
NoObi == [levels |-> -1, obi |-> [num |-> 0, den |-> 1]]

ObiIdle ==
    /\ obook = NoBook
    /\ ores = NoObi

\* Any book of the model.
ObiStart ==
    /\ obook \in [bids : BookSide(100, -1), asks : BookSide(101, 1)]
    /\ ores = NoObi

\* _metrics_loop computes the OBI of the book snapshot (signal_engine.py line 115);
\* the number of levels is a setting.
OOrderBookImbalance ==
    \E levels \in 0..(MaxDepth + 1) :
       /\ ores' = [levels |-> levels,
                   obi |-> order_book_imbalance(obook.bids, obook.asks, levels)]
       /\ UNCHANGED obook

ObiStep == OOrderBookImbalance

(***************************************************************************)
(* FlowBuckets.ofi_zscore on a bucket list                                  *)
(* (src/edge_signal_pack/indicators.py lines 99-125).                       *)
(*                                                                         *)
(* Quantities are whole multiples of 0.25e-6, so that the threshold 1e-6 of *)
(* the MAD is 4 units.  A median of whole numbers can end in .5: median2 is *)
(* twice the median, mad4 four times the MAD.  The returned float is the    *)
(* fraction num / den.                                                      *)
(***************************************************************************)
MaxTail == 3

z_clip == 6
mad_eps4 == 16

\* The per-second (buy, sell) totals of the model: nothing, a quantity below the
\* threshold, ordinary quantities and a burst, on either side.
BucketTotals == {<<0, 0>>, <<1, 0>>, <<8, 0>>, <<0, 8>>, <<16, 0>>, <<400, 0>>, <<0, 400>>}

\* Lengths of the quiet stretch before the last seconds: none, short, and long enough
\* for the series to reach the windows of 60 and 120 seconds and to outgrow the latter.
QuietLengths == {0, 3, 28, 58, 121}

\* n buckets for the seconds first .. first + n - 1: all of them (8, 0) when flat,
\* buys of 0, 8, 16, 0, 8, ... otherwise.
Stretch(first, n, flat) ==
    [i \in 1..n |-> [t |-> first + i - 1, b |-> IF flat THEN 8 ELSE 8 * (i % 3), s |-> 0]]

\* ofi_series: buy - sell of each bucket
ofi_series(buckets) == [i \in DOMAIN buckets |-> buckets[i].b - buckets[i].s]

\* x[-n:]
LastOf(x, n) == IF Len(x) <= n THEN x ELSE SubSeq(x, Len(x) - n + 1, Len(x))

\* The k-th smallest value of arr.
kth_smallest(arr, k) ==
    CHOOSE v \in {arr[i] : i \in DOMAIN arr} :
        /\ Cardinality({i \in DOMAIN arr : arr[i] < v}) < k
        /\ Cardinality({i \in DOMAIN arr : arr[i] <= v}) >= k

\* 2 * np.median(arr): the middle value, or the mean of the two middle values.
median2(arr) ==
    LET n == Len(arr)
    IN  IF n % 2 = 1 THEN 2 * kth_smallest(arr, (n + 1) \div 2)
        ELSE kth_smallest(arr, n \div 2) + kth_smallest(arr, n \div 2 + 1)

\* 4 * np.median(np.abs(arr - med))
mad4(arr) ==
    LET med2 == median2(arr)
    IN  median2([i \in DOMAIN arr |-> Abs(2 * arr[i] - med2)])

ofi_window(n) == IF n < 30 THEN 30 ELSE IF n < 60 THEN 60 ELSE 120

\* ofi_zscore that returns z as computed, without np.clip.
ofi_zscore_unclipped(buckets) ==
    LET x == ofi_series(buckets)
        n == Len(x)
        arr == LastOf(x, ofi_window(n))
        med2 == median2(arr)
        m4 == mad4(arr)
    IN  IF n < 5 THEN [num |-> 0, den |-> 1]
        ELSE IF m4 < mad_eps4 THEN [num |-> 0, den |-> 1]
        ELSE [num |-> 6745 * 2 * (2 * arr[Len(arr)] - med2), den |-> 10000 * m4]

\* ofi_zscore: 0.6745 * (arr[-1] - med) / mad, clipped to [-z_clip, z_clip]
ofi_zscore(buckets) ==
    LET x == ofi_series(buckets)
        n == Len(x)
        arr == LastOf(x, ofi_window(n))
        med2 == median2(arr)
        m4 == mad4(arr)
        num == 6745 * 2 * (2 * arr[Len(arr)] - med2)
        den == 10000 * m4
    IN  IF n < 5 THEN [num |-> 0, den |-> 1]
        ELSE IF m4 < mad_eps4 THEN [num |-> 0, den |-> 1]
        ELSE IF num > z_clip * den THEN [num |-> z_clip, den |-> 1]
        ELSE IF num < -z_clip * den THEN [num |-> -z_clip, den |-> 1]
        ELSE [num |-> num, den |-> den]

NoZ == [made |-> FALSE, z |-> [num |-> 0, den |-> 1]]

OfiIdle ==
    /\ zbuckets = <<>>
    /\ zres = NoZ

\* A bucket list: a quiet stretch, flat or rippling, then up to MaxTail seconds of any
\* totals of the model.
OfiStart ==
    /\ \E q \in QuietLengths : \E flat \in BOOLEAN :
       \E k \in 0..MaxTail : \E tail \in [1..k -> BucketTotals] :
          zbuckets = Stretch(1, q, flat)
                     \o [i \in 1..k |-> [t |-> q + i, b |-> tail[i][1], s |-> tail[i][2]]]
    /\ zres = NoZ

\* _metrics_loop reads the z-score of the buckets (signal_engine.py line 143).
ZOfiZscore ==
    /\ zres' = [made |-> TRUE, z |-> ofi_zscore(zbuckets)]
    /\ UNCHANGED zbuckets

OfiStep == ZOfiZscore

(***************************************************************************)
(* The cooldown section of one run_loop tick (src/src/main.py lines         *)
(* 1414-1422, 1743-1813, 1879-1918) with _strong_flow_override and          *)
(* _cooldown_override_by_flow (lines 425-479).                              *)
(*                                                                         *)
(* OFI z in tenths, ADX in points, times in minutes.  The metrics snapshot  *)
(* is the same at each of the reads of the tick.                            *)
(***************************************************************************)
\* What a tick finds: the metrics snapshot, the ADX, the signal of pick_signal, the
\* minutes since state["last_entry_time"] (-1: no entry yet) and the dynamic cooldown.
GateInputs ==
    [ofi_z : {-35, 0, 25, 35}, cons_buy : {0, 10}, cons_sell : {0, 10},
     edge_votes : {0, 5}, adx_val : {10, 25}, picked : {"LONG", "SHORT", "None"},
     since_entry : {-1, 2, 40}, dyn_cd : {5, 30}]

\* _strong_flow_override(edge, edge_votes, S)
strong_flow_override(met, edge_votes) ==
    LET hit_ofi == Abs(met.ofi_z) >= S.regime_override_ofi_z
        hit_cons == \/ (met.ofi_z >= 0 /\ met.cons_buy >= S.regime_override_cons)
                    \/ (met.ofi_z < 0 /\ met.cons_sell >= S.regime_override_cons)
        hit_votes == edge_votes >= S.regime_override_votes
        hits == (IF hit_ofi THEN 1 ELSE 0) + (IF hit_cons THEN 1 ELSE 0)
                + (IF hit_votes THEN 1 ELSE 0)
    IN  hits >= S.regime_override_min_triggers

\* _cooldown_override_by_flow(edge, S)
cooldown_override_by_flow(met) ==
    \/ Abs(met.ofi_z) >= S.cooldown_override_ofi_z
    \/ Max(met.cons_buy, met.cons_sell) >= S.cooldown_override_cons

\* The signal after the strength override of a None signal (lines 1783-1794).
signal_of(in) ==
    LET same_dir_cons == \/ (in.ofi_z >= 0 /\ in.cons_buy >= S.regime_override_cons)
                         \/ (in.ofi_z < 0 /\ in.cons_sell >= S.regime_override_cons)
    IN  IF in.picked # "None" THEN in.picked
        ELSE IF \/ Abs(in.ofi_z) >= S.regime_override_ofi_z
                \/ same_dir_cons
                \/ in.edge_votes >= S.regime_override_votes
        THEN (IF in.ofi_z >= 0 THEN "LONG" ELSE "SHORT")
        ELSE "None"

\* override_ok of lines 1881-1895: flow or votes, then the direction and ADX gates.
override_ok_of(in, sig) ==
    LET by_flow == cooldown_override_by_flow(in)
        by_votes == ~by_flow /\ in.edge_votes >= S.cooldown_override_votes
        flow_dir == IF in.ofi_z >= 0 THEN "LONG" ELSE "SHORT"
    IN  /\ by_flow \/ by_votes
        /\ ~(sig # "None" /\ sig # flow_dir)
        /\ ~(in.adx_val < S.cooldown_override_adx_min)

\* The cooldown section of a tick: [sig, strong_flow, override_ok, cooldown_ok, outcome],
\* outcome "no_signal" (skipped before the section), "cooldown" (skipped by it) or
\* "proceed".
cooldown_section(in) ==
    LET \* line 1422: edge_votes is still 0 there
        strong_flow == strong_flow_override(in, 0)
        sig == signal_of(in)
        override_ok == override_ok_of(in, sig)
        \* line 1880 and 1897 set True; lines 1902-1905 decide
        cooldown_ok == IF ~strong_flow /\ in.since_entry >= 0
                       THEN in.since_entry >= in.dyn_cd
                       ELSE TRUE
    IN  [sig |-> sig, strong_flow |-> strong_flow, override_ok |-> override_ok,
         cooldown_ok |-> cooldown_ok,
         outcome |-> IF sig = "None" THEN "no_signal"
                     ELSE IF strong_flow THEN "proceed"
                     ELSE IF ~cooldown_ok THEN "cooldown"
                     ELSE "proceed"]

NoGateInput ==
    [ofi_z |-> 0, cons_buy |-> 0, cons_sell |-> 0, edge_votes |-> 0, adx_val |-> 0,
     picked |-> "None", since_entry |-> -1, dyn_cd |-> 0]
NoGate ==
    [sig |-> "None", strong_flow |-> FALSE, override_ok |-> FALSE, cooldown_ok |-> FALSE,
     outcome |-> "none"]

GateIdle ==
    /\ kin = NoGateInput
    /\ kres = NoGate

\* A closed candle with any of the inputs of the model.
GateStart ==
    /\ kin \in GateInputs
    /\ kres = NoGate

\* run_loop takes the tick up to the end of the cooldown section.
KCooldownSection ==
    /\ kres = NoGate
    /\ kres' = cooldown_section(kin)
    /\ UNCHANGED kin

GateStep == KCooldownSection

(***************************************************************************)
(* The vote count of _metrics_loop                                          *)
(* (src/edge_signal_pack/signal_engine.py lines 44-83, 143-194).            *)
(*                                                                         *)
(* OBI in hundredths, OFI z in tenths.  liq_cluster_ok and doi_up_ok are     *)
(* "True", "False" or "None".  A key that is not in the dictionary has the   *)
(* default _vote_count reads for it; edge_votes is -1 until it is written.  *)
(***************************************************************************)
MaxVoteRounds == 2

OBI_THR == 50
OFI_Z_THR == 20
SEQ_MKT_TICKS == 20

\* What one round of _metrics_loop measures.
Measured ==
    [obi : {0, 60}, ofi_z : {0, 25}, cvd_above_ema : BOOLEAN, seq_buys : {0, 20},
     seq_sells : {0, 20}, liq_cluster_ok : {"None", "True", "False"},
     doi_up_ok : {"None", "True", "False"}]

\* self._metrics = {} of __init__
EmptyVoteMetrics ==
    [obi |-> 0, ofi_z |-> 0, cvd_above_ema |-> FALSE, seq_buys |-> 0, seq_sells |-> 0,
     liq_cluster_ok |-> "None", doi_up_ok |-> "None", edge_votes |-> -1]

\* _vote_count on the dictionary m
vote_count(m) ==
    LET b(x) == IF x THEN 1 ELSE 0
    IN  b(Abs(m.obi) >= OBI_THR)
        + b(Abs(m.ofi_z) >= OFI_Z_THR)
        + b(IF m.cvd_above_ema THEN m.seq_buys >= SEQ_MKT_TICKS
            ELSE m.seq_sells >= SEQ_MKT_TICKS)
        + b(m.liq_cluster_ok = "True")
        + b(m.doi_up_ok = "True")

\* The dictionary a round publishes (lines 143-194) after measuring new over the
\* published dictionary m: _vote_count() reads self._metrics at line 151, before any
\* value of the round is written to it.
metrics_round(m, new) ==
    [obi |-> new.obi, ofi_z |-> new.ofi_z, cvd_above_ema |-> new.cvd_above_ema,
     seq_buys |-> new.seq_buys, seq_sells |-> new.seq_sells,
     liq_cluster_ok |-> new.liq_cluster_ok, doi_up_ok |-> new.doi_up_ok,
     edge_votes |-> vote_count(m)]

VotesIdle ==
    /\ vmetrics = EmptyVoteMetrics
    /\ vrounds = 0

\* One round of _metrics_loop with any measured values.
VMetricsRound ==
    /\ vrounds < MaxVoteRounds
    /\ \E new \in Measured : vmetrics' = metrics_round(vmetrics, new)
    /\ vrounds' = vrounds + 1

VotesStep == VMetricsRound

(***************************************************************************)
(* The net side of the account: _guard_opposite_entry, the entry orders of  *)
(* run_loop with the two-stage flip (src/src/main.py lines 2183-2553), the   *)
(* watchdog and the reconciliation of _housekeep_sync, against a one-way     *)
(* exchange account that nets every fill.  Every order is of one lot.  The   *)
(* exchange side follows the spec's Exchange REST interface.                 *)
(***************************************************************************)

NetRange == {-2, -1, 0, 1, 2}     \* net positions of the exchange account, in lots
HeldLens == {0, 1}                \* lengths of state["positions"] that still grow

NoResting == [side |-> "none", cum |-> 0, live |-> FALSE]
NoTick == [path |-> "none", flip |-> FALSE, from |-> "none", step1 |-> "none",
           step2 |-> "none"]

\* _net_side_local of _guard_opposite_entry (lines 497-511): the sign of the sum
net_side_local(ps) ==
    IF SumQty(ps) > 0 THEN "long" ELSE IF SumQty(ps) < 0 THEN "short" ELSE "flat"

\* _exchange_net_side (lines 263-293): None for a flat account and for a failed read
exchange_net_side(q_ex, read_ok) ==
    IF ~read_ok THEN "none"
    ELSE IF q_ex > 0 THEN "long" ELSE IF q_ex < 0 THEN "short" ELSE "none"

\* _guard_opposite_entry with forbid_opposite_entry on (lines 482-663).  timers_ok:
\* _min_hold_ok() and _flip_interval_ok(); flip_ok: the votes of _should_flip.
guard_opposite_entry(requested_side, ps, ex_side, allow_atomic, timers_ok, flip_ok) ==
    LET net == IF ex_side # "none" THEN ex_side ELSE net_side_local(ps)
        conflict == \/ (net = "long" /\ requested_side = "SHORT")
                    \/ (net = "short" /\ requested_side = "LONG")
        pass == [ok |-> TRUE, force_flip |-> FALSE, flip_additional_qty |-> 0,
                 flip_from |-> "none"]
    IN  IF net = "flat" THEN pass
        ELSE IF ~conflict THEN pass
        ELSE IF allow_atomic /\ timers_ok /\ flip_ok
        THEN [ok |-> TRUE, force_flip |-> TRUE, flip_additional_qty |-> Abs(SumQty(ps)),
              flip_from |-> net]
        ELSE [ok |-> FALSE, force_flip |-> FALSE, flip_additional_qty |-> 0,
              flip_from |-> "none"]

\* _cleanup_positions_after_flip (lines 666-673)
cleanup_positions_after_flip(side, ps) ==
    SelectSeq(ps, LAMBDA p : p.side # (IF side = "LONG" THEN "short" ELSE "long"))

\* The account after a reduce-only order of q lots against a position of side from:
\* it takes off what is there, at most q.
exchange_reduce_only(q_ex, from, q) ==
    IF from = "long" /\ q_ex > 0 THEN q_ex - Min(q, q_ex)
    ELSE IF from = "short" /\ q_ex < 0 THEN q_ex + Min(q, -q_ex)
    ELSE q_ex

\* The account after a fill of one lot on a side.
exchange_open(q_ex, side) == IF side = "LONG" THEN q_ex + 1 ELSE q_ex - 1

\* The market entry (lines 2476-2553): with force_flip the reduce-only close of
\* flip_additional_qty first (step 1), then the opening order (step 2 or the plain
\* entry).  close_ok, open_ok: the retCode of the two orders.
market_entry(side, ps, q_ex, g, close_ok, open_ok) ==
    LET step1 == IF g.force_flip /\ g.flip_additional_qty > 0
                 THEN (IF close_ok THEN "ok" ELSE "fail") ELSE "none"
        ex1 == IF step1 = "ok"
               THEN exchange_reduce_only(q_ex, g.flip_from, g.flip_additional_qty)
               ELSE q_ex
        opened == Append(ps, [side |-> IF side = "LONG" THEN "long" ELSE "short", qty |-> 1])
    IN  IF step1 = "fail"
        THEN [positions |-> ps, q_ex |-> q_ex, step1 |-> "fail", step2 |-> "none"]
        ELSE IF open_ok
        THEN [positions |-> IF g.force_flip THEN cleanup_positions_after_flip(side, opened)
                            ELSE opened,
              q_ex |-> exchange_open(ex1, side), step1 |-> step1, step2 |-> "ok"]
        ELSE [positions |-> ps, q_ex |-> ex1,
              step1 |-> step1, step2 |-> "fail"]

NetIdle ==
    /\ ncfg = [allow_atomic_flip |-> FALSE, use_postonly_entries |-> TRUE]
    /\ npos = <<>>
    /\ nqex = 0
    /\ norder = NoResting
    /\ nwatched = FALSE
    /\ nlast = NoTick

NetStart ==
    /\ ncfg \in [allow_atomic_flip : BOOLEAN, use_postonly_entries : BOOLEAN]
    /\ npos = <<>>
    /\ nqex = 0
    /\ norder = NoResting
    /\ nwatched = FALSE
    /\ nlast = NoTick

\* The exchange matches the resting post-only order.
NOrderFill ==
    /\ norder.live
    /\ exchange_open(nqex, norder.side) \in NetRange
    /\ norder' = [norder EXCEPT !.cum = 1, !.live = FALSE]
    /\ nqex' = exchange_open(nqex, norder.side)
    /\ UNCHANGED <<ncfg, npos, nwatched, nlast>>

\* The entry section of a tick whose signal and entry guards allow an entry on side
\* (lines 2183-2596).  flip_ok: _min_hold_ok(), _flip_interval_ok() and the votes of
\* _should_flip; raced: the resting order of an earlier tick is matched after the
\* guard has read the account; cancel_ok: _cancel_all_fn takes the resting order
\* off; po: the post-only order is refused, fills during the fill watch, or stays
\* unfilled and goes to the watch list; close_ok, open_ok: the market orders.
NEntry ==
    /\ \E side \in {"LONG", "SHORT"}, read_ok \in BOOLEAN, flip_ok \in BOOLEAN :
          LET g == guard_opposite_entry(side, npos, exchange_net_side(nqex, read_ok),
                                        ncfg.allow_atomic_flip, flip_ok, flip_ok)
              tick == [NoTick EXCEPT !.flip = g.force_flip, !.from = g.flip_from]
              new == [side |-> IF side = "LONG" THEN "long" ELSE "short", qty |-> 1]
          IN  IF ~g.ok
              THEN /\ nlast' = [tick EXCEPT !.path = "blocked"]
                   /\ UNCHANGED <<npos, nqex, norder, nwatched>>
              ELSE IF Len(npos) >= max_positions
              THEN /\ nlast' = [tick EXCEPT !.path = "max_positions"]
                   /\ UNCHANGED <<npos, nqex, norder, nwatched>>
              ELSE \E raced \in BOOLEAN, cancel_ok \in BOOLEAN,
                      po \in {"rejected", "filled", "watch"} :
                      LET fills == raced /\ norder.live
                          o1 == IF fills THEN [norder EXCEPT !.cum = 1, !.live = FALSE]
                                ELSE norder
                          ex1 == IF fills THEN exchange_open(nqex, norder.side) ELSE nqex
                          o2 == IF ncfg.use_postonly_entries /\ cancel_ok /\ o1.live
                                THEN [o1 EXCEPT !.live = FALSE] ELSE o1
                      IN  /\ norder.live \/ (~raced /\ cancel_ok)
                          /\ ncfg.use_postonly_entries \/ po = "rejected"
                          /\ IF po = "filled"
                             THEN /\ Len(npos) \in HeldLens
                                  /\ exchange_open(ex1, side) \in NetRange
                                  /\ npos' = Append(npos, new)
                                  /\ nqex' = exchange_open(ex1, side)
                                  /\ norder' = o2
                                  /\ nlast' = [tick EXCEPT !.path = "postonly"]
                                  /\ UNCHANGED nwatched
                             ELSE IF po = "watch"
                             THEN /\ ~o2.live
                                  /\ ~nwatched
                                  /\ ex1 \in NetRange
                                  /\ nqex' = ex1
                                  /\ norder' = [side |-> side, cum |-> 0, live |-> TRUE]
                                  /\ nwatched' = TRUE
                                  /\ nlast' = [tick EXCEPT !.path = "watch"]
                                  /\ UNCHANGED npos
                             ELSE \E close_ok \in BOOLEAN, open_ok \in BOOLEAN :
                                     LET m == market_entry(side, npos, ex1, g, close_ok,
                                                           open_ok)
                                     IN  /\ Len(npos) \in HeldLens
                                         /\ m.q_ex \in NetRange
                                         /\ npos' = m.positions
                                         /\ nqex' = m.q_ex
                                         /\ norder' = o2
                                         /\ nlast' = [tick EXCEPT !.path = "market",
                                                                  !.step1 = m.step1,
                                                                  !.step2 = m.step2]
                                         /\ UNCHANGED nwatched
    /\ UNCHANGED ncfg

\* The exit section closes one position of the list with a reduce-only order that
\* the account can fill.
NExit ==
    /\ \E i \in DOMAIN npos :
          /\ exchange_reduce_only(nqex, npos[i].side, 1) # nqex
          /\ nqex' = exchange_reduce_only(nqex, npos[i].side, 1)
          /\ npos' = [j \in 1..(Len(npos) - 1) |-> IF j < i THEN npos[j] ELSE npos[j + 1]]
    /\ nlast' = NoTick
    /\ UNCHANGED <<ncfg, norder, nwatched>>

\* _watchdog_open_orders on the watched order (lines 1176-1209): adopt its fill, drop
\* it once cancelled, cancel it again after the TTL.
net_watchdog(ps, o, read_ok, ttl_over, cancel_ok) ==
    IF read_ok /\ o.cum > 0
    THEN [positions |-> adopt_position_from_fill(ps, o.side, o.cum), order |-> o,
          watched |-> FALSE]
    ELSE IF read_ok /\ ~o.live
    THEN [positions |-> ps, order |-> o, watched |-> FALSE]
    ELSE IF ttl_over
    THEN [positions |-> ps,
          order |-> IF cancel_ok THEN [o EXCEPT !.live = FALSE] ELSE o,
          watched |-> FALSE]
    ELSE [positions |-> ps, order |-> o, watched |-> TRUE]

\* _housekeep_sync at the top of an iteration: the watchdog, then, when
\* sync_interval_sec has passed, _reconcile_with_exchange in its default mode.
NHousekeep ==
    /\ Len(npos) \in HeldLens
    /\ \E read_ok \in BOOLEAN, ttl_over \in BOOLEAN, cancel_ok \in BOOLEAN,
          sync_due \in BOOLEAN :
          LET w == IF nwatched THEN net_watchdog(npos, norder, read_ok, ttl_over, cancel_ok)
                   ELSE [positions |-> npos, order |-> norder, watched |-> FALSE]
              r == reconcile(w.positions, nqex, FALSE, sync_due, TRUE)
          IN  /\ (~nwatched => (read_ok /\ ~ttl_over /\ cancel_ok))
              /\ npos' = r.positions
              /\ norder' = w.order
              /\ nwatched' = w.watched
    /\ UNCHANGED <<ncfg, nqex, nlast>>

NetStep == NOrderFill \/ NEntry \/ NExit \/ NHousekeep

(***************************************************************************)
(* The neutral-regime trade limit: the reset at the start of run_loop       *)
(* (src/src/main.py lines 1280-1289), the limit in the entry decision       *)
(* (lines 2081-2091) and the count in update_trading_state (lines 699-715). *)
(* The age of last_neutral_reset is "fresh" below 3600 s and "due" from     *)
(* 3600 s on; state.json carries the state over a restart.                  *)
(***************************************************************************)

MaxTrades == 3           \* closed trades counted in one behaviour

neutral_limit == 2       \* if neutral_trade_count >= 2 (line 2084)

NoHourTick == [regime |-> "none", outcome |-> "none"]

HourIdle ==
    /\ hstate = [neutral_trade_count |-> 0, age |-> "fresh", last_regime |-> "neutral"]
    /\ hpc = "down"
    /\ hheld = 0
    /\ hlast = NoHourTick

\* run_loop starts (lines 1114-1306): load_state, last_neutral_reset set when missing,
\* then the reset block (lines 1285-1289), once, before the while loop is entered:
\* after 3600 s the count is 0 and the reset time now.
HStartup ==
    /\ hpc = "down"
    /\ hstate' = IF hstate.age = "due"
                 THEN [hstate EXCEPT !.neutral_trade_count = 0, !.age = "fresh"]
                 ELSE hstate
    /\ hpc' = "run"
    /\ hlast' = NoHourTick
    /\ UNCHANGED hheld

\* An hour has passed since last_neutral_reset.
HTime ==
    /\ hstate.age = "fresh"
    /\ hstate' = [hstate EXCEPT !.age = "due"]
    /\ UNCHANGED <<hpc, hheld, hlast>>

\* A handled tick whose guards allow an entry reaches the regime limits (lines
\* 2081-2091) and, when not blocked, the order: a market entry stores last_regime
\* (line 2530), a post-only fill does not.
HTick ==
    /\ hpc = "run"
    /\ \E regime \in {"neutral", "trend_up", "range"}, path \in {"market", "postonly"} :
          IF regime = "neutral" /\ hstate.neutral_trade_count >= neutral_limit
          THEN /\ hlast' = [regime |-> regime, outcome |-> "blocked"]
               /\ UNCHANGED <<hstate, hheld>>
          ELSE IF hheld + 1 \in HeldLens
          THEN /\ hlast' = [regime |-> regime, outcome |-> path]
               /\ hheld' = hheld + 1
               /\ hstate' = IF path = "market" THEN [hstate EXCEPT !.last_regime = regime]
                            ELSE hstate
          ELSE /\ hlast' = [regime |-> regime, outcome |-> "none"]
               /\ UNCHANGED <<hstate, hheld>>
    /\ UNCHANGED hpc

\* The exit section closes a position and calls update_trading_state (lines 699-715):
\* the closed trade counts when last_regime, "neutral" by default, is neutral.
HCloseTrade ==
    /\ hpc = "run"
    /\ hheld > 0
    /\ hstate.neutral_trade_count < MaxTrades
    /\ hstate' = IF hstate.last_regime = "neutral"
                 THEN [hstate EXCEPT !.neutral_trade_count = @ + 1] ELSE hstate
    /\ hheld' = hheld - 1
    /\ hlast' = NoHourTick
    /\ UNCHANGED hpc

\* The process is stopped; state.json keeps the state.
HStop ==
    /\ hpc = "run"
    /\ hpc' = "down"
    /\ hlast' = NoHourTick
    /\ UNCHANGED <<hstate, hheld>>

HourStep == HStartup \/ HTime \/ HTick \/ HCloseTrade \/ HStop

\* ---- SPECS ----
(***************************************************************************)
(* Specifications: each one drives one part of the program, the others     *)
(* stay idle.                                                              *)
(***************************************************************************)

ExitInit == ExitStart /\ EdgeIdle /\ SyncIdle /\ POIdle /\ LoopIdle /\ CloseIdle /\
        SaveIdle /\ FetchIdle /\ FlowIdle /\ CoolIdle /\ GuardIdle /\ RegimeIdle /\ ObiIdle /\
        OfiIdle /\ GateIdle /\ VotesIdle /\ NetIdle /\ HourIdle

ExitNext == ExitStep /\ UNCHANGED <<edgeVars, syncVars, poVars, loopVars, closeVars, saveVars,
        fetchVars, flowVars, coolVars, guardVars, regimeVars, obiVars, ofiVars, gateVars,
        votesVars, netVars, hourVars>>

SpecExit == ExitInit /\ [][ExitNext]_vars

EdgeInit == EdgeIdle /\ ExitIdle /\ SyncIdle /\ POIdle /\ LoopIdle /\ CloseIdle /\ SaveIdle /\
        FetchIdle /\ FlowIdle /\ CoolIdle /\ GuardIdle /\ RegimeIdle /\ ObiIdle /\ OfiIdle /\
        GateIdle /\ VotesIdle /\ NetIdle /\ HourIdle

EdgeNext == EdgeStep /\ UNCHANGED <<exitVars, syncVars, poVars, loopVars, closeVars, saveVars,
        fetchVars, flowVars, coolVars, guardVars, regimeVars, obiVars, ofiVars, gateVars,
        votesVars, netVars, hourVars>>

SpecEdge == EdgeInit /\ [][EdgeNext]_vars

SyncInit == SyncStart /\ ExitIdle /\ EdgeIdle /\ POIdle /\ LoopIdle /\ CloseIdle /\
        SaveIdle /\ FetchIdle /\ FlowIdle /\ CoolIdle /\ GuardIdle /\ RegimeIdle /\ ObiIdle /\
        OfiIdle /\ GateIdle /\ VotesIdle /\ NetIdle /\ HourIdle

SyncNext == SyncStep /\ UNCHANGED <<exitVars, edgeVars, poVars, loopVars, closeVars, saveVars,
        fetchVars, flowVars, coolVars, guardVars, regimeVars, obiVars, ofiVars, gateVars,
        votesVars, netVars, hourVars>>

SpecSync == SyncInit /\ [][SyncNext]_vars

POInit == POIdle /\ ExitIdle /\ EdgeIdle /\ SyncIdle /\ LoopIdle /\ CloseIdle /\ SaveIdle /\
        FetchIdle /\ FlowIdle /\ CoolIdle /\ GuardIdle /\ RegimeIdle /\ ObiIdle /\ OfiIdle /\
        GateIdle /\ VotesIdle /\ NetIdle /\ HourIdle

PONext == POStep /\ UNCHANGED <<exitVars, edgeVars, syncVars, loopVars, closeVars, saveVars,
        fetchVars, flowVars, coolVars, guardVars, regimeVars, obiVars, ofiVars, gateVars,
        votesVars, netVars, hourVars>>

SpecPO == POInit /\ [][PONext]_vars

LoopInit == LoopStart /\ ExitIdle /\ EdgeIdle /\ SyncIdle /\ POIdle /\ CloseIdle /\
        SaveIdle /\ FetchIdle /\ FlowIdle /\ CoolIdle /\ GuardIdle /\ RegimeIdle /\ ObiIdle /\
        OfiIdle /\ GateIdle /\ VotesIdle /\ NetIdle /\ HourIdle

LoopNext == LoopStep /\ UNCHANGED <<exitVars, edgeVars, syncVars, poVars, closeVars, saveVars,
        fetchVars, flowVars, coolVars, guardVars, regimeVars, obiVars, ofiVars, gateVars,
        votesVars, netVars, hourVars>>

SpecLoop == LoopInit /\ [][LoopNext]_vars

CloseInit == CloseIdle /\ ExitIdle /\ EdgeIdle /\ SyncIdle /\ POIdle /\ LoopIdle /\
        SaveIdle /\ FetchIdle /\ FlowIdle /\ CoolIdle /\ GuardIdle /\ RegimeIdle /\ ObiIdle /\
        OfiIdle /\ GateIdle /\ VotesIdle /\ NetIdle /\ HourIdle

CloseNext == CloseStep /\ UNCHANGED <<exitVars, edgeVars, syncVars, poVars, loopVars,
        saveVars, fetchVars, flowVars, coolVars, guardVars, regimeVars, obiVars, ofiVars,
        gateVars, votesVars, netVars, hourVars>>

SpecClose == CloseInit /\ [][CloseNext]_vars

SaveInit == SaveIdle /\ ExitIdle /\ EdgeIdle /\ SyncIdle /\ POIdle /\ LoopIdle /\ CloseIdle /\
        FetchIdle /\ FlowIdle /\ CoolIdle /\ GuardIdle /\ RegimeIdle /\ ObiIdle /\ OfiIdle /\
        GateIdle /\ VotesIdle /\ NetIdle /\ HourIdle

SaveNext == SaveStep /\ UNCHANGED <<exitVars, edgeVars, syncVars, poVars, loopVars, closeVars,
        fetchVars, flowVars, coolVars, guardVars, regimeVars, obiVars, ofiVars, gateVars,
        votesVars, netVars, hourVars>>

SpecSave == SaveInit /\ [][SaveNext]_vars

FetchInit == FetchIdle /\ ExitIdle /\ EdgeIdle /\ SyncIdle /\ POIdle /\ LoopIdle /\
        CloseIdle /\ SaveIdle /\ FlowIdle /\ CoolIdle /\ GuardIdle /\ RegimeIdle /\ ObiIdle /\
        OfiIdle /\ GateIdle /\ VotesIdle /\ NetIdle /\ HourIdle

FetchNext == FetchStep /\ UNCHANGED <<exitVars, edgeVars, syncVars, poVars, loopVars,
        closeVars, saveVars, flowVars, coolVars, guardVars, regimeVars, obiVars, ofiVars,
        gateVars, votesVars, netVars, hourVars>>

SpecFetch == FetchInit /\ [][FetchNext]_vars

FlowInit == FlowIdle /\ ExitIdle /\ EdgeIdle /\ SyncIdle /\ POIdle /\ LoopIdle /\ CloseIdle /\
        SaveIdle /\ FetchIdle /\ CoolIdle /\ GuardIdle /\ RegimeIdle /\ ObiIdle /\ OfiIdle /\
        GateIdle /\ VotesIdle /\ NetIdle /\ HourIdle

FlowNext == FlowStep /\ UNCHANGED <<exitVars, edgeVars, syncVars, poVars, loopVars, closeVars,
        saveVars, fetchVars, coolVars, guardVars, regimeVars, obiVars, ofiVars, gateVars,
        votesVars, netVars, hourVars>>

SpecFlow == FlowInit /\ [][FlowNext]_vars

CoolInit == CoolIdle /\ ExitIdle /\ EdgeIdle /\ SyncIdle /\ POIdle /\ LoopIdle /\ CloseIdle /\
        SaveIdle /\ FetchIdle /\ FlowIdle /\ GuardIdle /\ RegimeIdle /\ ObiIdle /\ OfiIdle /\
        GateIdle /\ VotesIdle /\ NetIdle /\ HourIdle

CoolNext == CoolStep /\ UNCHANGED <<exitVars, edgeVars, syncVars, poVars, loopVars, closeVars,
        saveVars, fetchVars, flowVars, guardVars, regimeVars, obiVars, ofiVars, gateVars,
        votesVars, netVars, hourVars>>

SpecCool == CoolInit /\ [][CoolNext]_vars

GuardInit == GuardStart /\ ExitIdle /\ EdgeIdle /\ SyncIdle /\ POIdle /\ LoopIdle /\
        CloseIdle /\ SaveIdle /\ FetchIdle /\ FlowIdle /\ CoolIdle /\ RegimeIdle /\ ObiIdle /\
        OfiIdle /\ GateIdle /\ VotesIdle /\ NetIdle /\ HourIdle

GuardNext == GuardStep /\ UNCHANGED <<exitVars, edgeVars, syncVars, poVars, loopVars,
        closeVars, saveVars, fetchVars, flowVars, coolVars, regimeVars, obiVars, ofiVars,
        gateVars, votesVars, netVars, hourVars>>

SpecGuard == GuardInit /\ [][GuardNext]_vars

RegimeInit == RegimeStart /\ ExitIdle /\ EdgeIdle /\ SyncIdle /\ POIdle /\ LoopIdle /\
        CloseIdle /\ SaveIdle /\ FetchIdle /\ FlowIdle /\ CoolIdle /\ GuardIdle /\ ObiIdle /\
        OfiIdle /\ GateIdle /\ VotesIdle /\ NetIdle /\ HourIdle

RegimeNext == RegimeStep /\ UNCHANGED <<exitVars, edgeVars, syncVars, poVars, loopVars,
        closeVars, saveVars, fetchVars, flowVars, coolVars, guardVars, obiVars, ofiVars,
        gateVars, votesVars, netVars, hourVars>>

SpecRegime == RegimeInit /\ [][RegimeNext]_vars

ObiInit == ObiStart /\ ExitIdle /\ EdgeIdle /\ SyncIdle /\ POIdle /\ LoopIdle /\ CloseIdle /\
        SaveIdle /\ FetchIdle /\ FlowIdle /\ CoolIdle /\ GuardIdle /\ RegimeIdle /\ OfiIdle /\
        GateIdle /\ VotesIdle /\ NetIdle /\ HourIdle

ObiNext == ObiStep /\ UNCHANGED <<exitVars, edgeVars, syncVars, poVars, loopVars, closeVars,
        saveVars, fetchVars, flowVars, coolVars, guardVars, regimeVars, ofiVars, gateVars,
        votesVars, netVars, hourVars>>

SpecObi == ObiInit /\ [][ObiNext]_vars

OfiInit == OfiStart /\ ExitIdle /\ EdgeIdle /\ SyncIdle /\ POIdle /\ LoopIdle /\ CloseIdle /\
        SaveIdle /\ FetchIdle /\ FlowIdle /\ CoolIdle /\ GuardIdle /\ RegimeIdle /\ ObiIdle /\
        GateIdle /\ VotesIdle /\ NetIdle /\ HourIdle

OfiNext == OfiStep /\ UNCHANGED <<exitVars, edgeVars, syncVars, poVars, loopVars, closeVars,
        saveVars, fetchVars, flowVars, coolVars, guardVars, regimeVars, obiVars, gateVars,
        votesVars, netVars, hourVars>>

SpecOfi == OfiInit /\ [][OfiNext]_vars

GateInit == GateStart /\ ExitIdle /\ EdgeIdle /\ SyncIdle /\ POIdle /\ LoopIdle /\
        CloseIdle /\ SaveIdle /\ FetchIdle /\ FlowIdle /\ CoolIdle /\ GuardIdle /\
        RegimeIdle /\ ObiIdle /\ OfiIdle /\ VotesIdle /\ NetIdle /\ HourIdle

GateNext == GateStep /\ UNCHANGED <<exitVars, edgeVars, syncVars, poVars, loopVars, closeVars,
        saveVars, fetchVars, flowVars, coolVars, guardVars, regimeVars, obiVars, ofiVars,
        votesVars, netVars, hourVars>>

SpecGate == GateInit /\ [][GateNext]_vars

VotesInit == VotesIdle /\ ExitIdle /\ EdgeIdle /\ SyncIdle /\ POIdle /\ LoopIdle /\
        CloseIdle /\ SaveIdle /\ FetchIdle /\ FlowIdle /\ CoolIdle /\ GuardIdle /\
        RegimeIdle /\ ObiIdle /\ OfiIdle /\ GateIdle /\ NetIdle /\ HourIdle

VotesNext == VotesStep /\ UNCHANGED <<exitVars, edgeVars, syncVars, poVars, loopVars,
        closeVars, saveVars, fetchVars, flowVars, coolVars, guardVars, regimeVars, obiVars,
        ofiVars, gateVars, netVars, hourVars>>

SpecVotes == VotesInit /\ [][VotesNext]_vars

NetInit == NetStart /\ ExitIdle /\ EdgeIdle /\ SyncIdle /\ POIdle /\ LoopIdle /\ CloseIdle /\
        SaveIdle /\ FetchIdle /\ FlowIdle /\ CoolIdle /\ GuardIdle /\ RegimeIdle /\ ObiIdle /\
        OfiIdle /\ GateIdle /\ VotesIdle /\ HourIdle

NetNext == NetStep /\ UNCHANGED <<exitVars, edgeVars, syncVars, poVars, loopVars, closeVars,
        saveVars, fetchVars, flowVars, coolVars, guardVars, regimeVars, obiVars, ofiVars,
        gateVars, votesVars, hourVars>>

SpecNet == NetInit /\ [][NetNext]_vars

HourInit == HourIdle /\ ExitIdle /\ EdgeIdle /\ SyncIdle /\ POIdle /\ LoopIdle /\ CloseIdle /\
        SaveIdle /\ FetchIdle /\ FlowIdle /\ CoolIdle /\ GuardIdle /\ RegimeIdle /\ ObiIdle /\
        OfiIdle /\ GateIdle /\ VotesIdle /\ NetIdle

HourNext == HourStep /\ UNCHANGED <<exitVars, edgeVars, syncVars, poVars, loopVars, closeVars,
        saveVars, fetchVars, flowVars, coolVars, guardVars, regimeVars, obiVars, ofiVars,
        gateVars, votesVars, netVars>>

SpecHour == HourInit /\ [][HourNext]_vars

\* The trade stream and the metrics rounds alone: no other caller of on_trade.
FeedNext == FeedStep /\ UNCHANGED <<exitVars, edgeVars, syncVars, poVars, loopVars, closeVars,
        saveVars, fetchVars, coolVars, guardVars, regimeVars, obiVars, ofiVars, gateVars,
        votesVars, netVars, hourVars>>

SpecFeed == FlowInit /\ [][FeedNext]_vars

\* The guards on the trade lists of the flow baseline.
BaselineInit == BaselineStart /\ ExitIdle /\ EdgeIdle /\ SyncIdle /\ POIdle /\ LoopIdle /\
        CloseIdle /\ SaveIdle /\ FetchIdle /\ FlowIdle /\ CoolIdle /\ RegimeIdle /\ ObiIdle /\
        OfiIdle /\ GateIdle /\ VotesIdle /\ NetIdle /\ HourIdle

BaselineNext == GuardStep /\ UNCHANGED <<exitVars, edgeVars, syncVars, poVars, loopVars,
        closeVars, saveVars, fetchVars, flowVars, coolVars, regimeVars, obiVars, ofiVars,
        gateVars, votesVars, netVars, hourVars>>

SpecBaseline == BaselineInit /\ [][BaselineNext]_vars

\* The exit section on candles that breach the stop.
GraceInit == GraceStart /\ ExitIdle /\ EdgeIdle /\ SyncIdle /\ POIdle /\ LoopIdle /\
        SaveIdle /\ FetchIdle /\ FlowIdle /\ CoolIdle /\ GuardIdle /\ RegimeIdle /\ ObiIdle /\
        OfiIdle /\ GateIdle /\ VotesIdle /\ NetIdle /\ HourIdle

GraceNext == GraceStep /\ UNCHANGED <<exitVars, edgeVars, syncVars, poVars, loopVars,
        saveVars, fetchVars, flowVars, coolVars, guardVars, regimeVars, obiVars, ofiVars,
        gateVars, votesVars, netVars, hourVars>>

SpecGrace == GraceInit /\ [][GraceNext]_vars

(***************************************************************************)
(* Claims about the exit engine                                            *)
(***************************************************************************)

\* state["exit_engine"] as the last evaluate() call found it
XPreSt == [flow_prev |-> [s \in {"long", "short"} |-> xctx.flow_prev], peak |-> 0]

XEvaluated == xpos # NoPos /\ xres # NoRes

\* C9: every call of evaluate returns exactly one action of the enum; when the
\* near-TP condition holds with at least early_tp_votes_needed votes the action
\* is TP_ALL or TP_PART whatever the SL-grace and time-stop conditions are;
\* SL_GRACE is returned only when near-TP did not fire, and CUT only when
\* neither near-TP nor SL-grace fired.
C9_ExitPriority ==
    XEvaluated =>
        /\ xres.action \in ExitActions
        /\ near_tp_fires(xpos, xctx, XPreSt) => xres.action \in {"TP_ALL", "TP_PART"}
        /\ xres.action = "SL_GRACE" =>
              ~near_tp_fires(xpos, xctx, XPreSt) /\ sl_grace_fires(xpos, xctx)
        /\ xres.action = "CUT" =>
              ~near_tp_fires(xpos, xctx, XPreSt) /\ ~sl_grace_fires(xpos, xctx)

\* C9 witness: near-TP and SL-grace conditions hold together, and TP won.
C9_Witness ==
    /\ XEvaluated
    /\ near_tp_fires(xpos, xctx, XPreSt)
    /\ sl_grace_fires(xpos, xctx)
    /\ xres.action \in {"TP_ALL", "TP_PART"}

\* C10 (as claimed): a position created by run_loop that has been held at least
\* time_stop_min minutes with its tracked peak R below min_follow_through_R is
\* CUT by an evaluation in which neither near-TP nor SL-grace fires.
C10_TimeStopCuts ==
    ( /\ XEvaluated
      /\ xctx.now - xpos.time.t >= time_stop_min
      /\ peak_below_follow(xpos, xst.peak)
      /\ ~near_tp_fires(xpos, xctx, XPreSt)
      /\ ~sl_grace_fires(xpos, xctx) )
    => xres.action = "CUT"

(***************************************************************************)
(* Claims about the edge engine                                            *)
(***************************************************************************)

\* C6 (as claimed): the mapping a reader gets from get_metrics_snapshot is
\* exactly one fully published snapshot, never a mix of two recomputes.
C6_SnapshotAtomic ==
    rsnap # NoSnap => rsnap \in epublished

(***************************************************************************)
(* Claims about reconciliation                                             *)
(***************************************************************************)

\* C7 (as claimed): after _reconcile_with_exchange has found a difference beyond
\* the tolerance and has acted (adopt mode, or auto-flatten with the close order
\* succeeding) the local net quantity equals the exchange net quantity within
\* the tolerance.
C7_ReconcileConverges ==
    srec.acted \in {"adopt", "flatten"} => within_tol(sqex, q_local(spos))

(***************************************************************************)
(* Claims about the post-only order                                        *)
(***************************************************************************)

\* C8 (as claimed): whatever the order of fill, timeout, cancel and watchdog
\* polls, the quantity the exchange executed for the order ends up in the local
\* positions exactly once (checked once the order is finished, untracked and a
\* reconciliation has run), and the watchdog drops a watched order only after
\* reading its outcome, a filled quantity or a confirmed cancel.
C8_FillRecordedOnce ==
    /\ psynced => q_local(ppos) = oex.cum
    /\ pdrop \in {"none", "fill", "cancel"}

(***************************************************************************)
(* Claims about the candle loop                                            *)
(***************************************************************************)

\* C1: once the handling of the candle with start T has finished (skip path or
\* normal end), every later step taken while T is still the latest closed candle
\* is a de-duplicated iteration (housekeeping only) or a restart: no tick starts,
\* so no exit evaluation, no entry decision and no order; this holds across a
\* restart because the marker is reloaded from state.json.
C1_Dedup ==
    [][(lhist[lcandle].finished /\ lcandle' = lcandle)
         => /\ lpc' = "top"
            /\ liter' \in {"dedup", "dedup_restarted", "restarted"}
            /\ lorders' = lorders
            /\ lhist' = lhist]_vars

\* C1 witness: an order was submitted for the candle, its tick finished, the
\* process restarted, and the next iteration on the same candle was de-duplicated.
C1_Witness ==
    /\ liter = "dedup_restarted"
    /\ lhist[lcandle].finished
    /\ lhist[lcandle].norders > 0
    /\ lhandled = lcandle

\* C2 (as claimed): at most one opening order (post-only or market) is submitted
\* for each closed candle.
C2_OneOpenAttempt ==
    \A T \in Candles : lhist[T].norders <= 1

\* C3 (as claimed): a market order is submitted in a tick only for a side whose
\* last Entry Guard verdict in that tick is allow.
C3_OrderOnlyIfGuardAllowed ==
    \A i \in 1..Len(lorders) :
        lorders[i].kind = "market" => lguard[lorders[i].side] = "allow"

\* C4 (as claimed): when a guard evaluation raised during the tick (first
\* evaluation or pb_flip_follow re-evaluation) no opening order is placed in it.
C4_FailSafeClosed ==
    lcur.raised => lorders = <<>>

\* C5 (as claimed): when an opening order of the tick failed (non-zero return
\* code or exception), the tick ends with the positions list and last_entry_time
\* as they were before the entry and with the candle marked handled.
C5_FailedOrderLeavesState ==
    (liter = "finished" /\ \E i \in 1..Len(lorders) : ~lorders[i].ok)
    => /\ lpos = lcur.pos_pre
       /\ llast_entry = lcur.le_pre
       /\ lhandled = lcur.last_start
       /\ ldisk = lcur.last_start

(***************************************************************************)
(* Claims about the exit section of run_loop                               *)
(***************************************************************************)

\* Some close order of the position handled last failed.
CSomeFailed == "fail" \in {clast.early, clast.tp, clast.sl}

\* Some close order of the position handled last was accepted.
CSomeOk == "ok" \in {clast.early, clast.tp, clast.sl}

\* The position handled last is still in state["positions"] with the qty it had.
CKeptAsItWas ==
    /\ clast.kept
    /\ clast.qty_post = clast.qty_pre
    /\ clast.pnl = 0
    /\ \E i \in DOMAIN cpositions :
          cpositions[i].key = clast.key /\ cpositions[i].qty = clast.qty_pre

\* C11: a stop-loss close order for a position is never submitted before the end of a
\* grace window granted to it (until = t + grace_sec), also not later in the tick that
\* granted it, and the SL_GRACE action leaves the position's sl_price as it was.
C11_SlGraceHolds ==
    /\ clast.sl # "none" => clast.sl_t >= clast.granted
    /\ clast.act = "SL_GRACE" => clast.sl_after = clast.sl_before

\* C11 witness: in the tick that granted the grace the stop was hit and no stop-loss
\* order went out.
C11_Witness ==
    /\ clast.done
    /\ clast.act = "SL_GRACE"
    /\ clast.sl_hit
    /\ clast.tp # "ok"
    /\ clast.sl = "none"
    /\ cnow < clast.granted

\* C13 (as stated): once a close order of a position failed, the position stays in the
\* list with its qty, and no PnL or win/loss update is made for it.
C13_FailedCloseKeepsPosition == (clast.done /\ CSomeFailed) => CKeptAsItWas

\* C13 (amended): when every close order submitted for a position in a tick failed, the
\* position stays in the list with its qty, no PnL or win/loss update is made for it,
\* and it is there for the next handled tick.
C13_AllFailedKeepsPosition == (clast.done /\ CSomeFailed /\ ~CSomeOk) => CKeptAsItWas

\* C13 witness: a close order failed, none was accepted, the loop body is through.
C13_Witness == clast.done /\ CSomeFailed /\ ~CSomeOk /\ cidx = 0

(***************************************************************************)
(* Claims about the order of the steps of a tick                           *)
(***************************************************************************)

\* C12: in a handled tick the exit section is through before the margin estimate, the
\* max-positions check and any opening order: the list both of them measure has the
\* positions of the start of the tick less the ones closed in this tick, and an
\* opening order comes after the margin estimate.
C12_ExitBeforeEntry ==
    /\ lcur.margin_n # -1 => lcur.margin_n = lcur.top_n - lcur.closed_n
    /\ lcur.maxpos_n # -1 => lcur.maxpos_n = lcur.top_n - lcur.closed_n
    /\ Len(lorders) > 0 => lcur.margin_n # -1

\* C12 witness: a tick closed a position and went on to submit an opening order.
C12_Witness == lcur.closed_n = 1 /\ lcur.maxpos_n # -1 /\ Len(lorders) > 0

\* C14: every loop iteration evaluates the open positions, also an iteration that
\* finds no new closed candle.
C14_ExitEveryIteration == liter \in {"dedup", "dedup_restarted"} => Len(lpos) = 0

(***************************************************************************)
(* Claims about persistence                                                *)
(***************************************************************************)

\* C15: whatever step of save_state the process stops at, state.json holds a complete
\* document: the state it held before the call or the state being saved; the process
\* can always load it; and once the save_state that ends a handled tick (skip path or
\* normal end) has returned, state.json holds that tick's last_kline_start.
C15_AtomicPersistence ==
    /\ vfile.exists =>
          /\ json_load(vfile.data).ok
          /\ json_load(vfile.data) = vprev \/ json_load(vfile.data).state = vsaving
    /\ vpc # "broken"
    /\ (vlast.done /\ vlast.kind \in {"skip", "end_of_tick"}) =>
          /\ vfile.exists
          /\ json_load(vfile.data).state.last_kline_start = vlast.T

\* C15 witness: the process stopped inside save_state with a half-written temporary
\* file, started again and loaded the previous state.
C15_Witness ==
    /\ vpc = "run"
    /\ vtmp.exists
    /\ ~json_load(vtmp.data).ok
    /\ vfile.exists
    /\ vstate = vprev.state
    /\ vstate # vsaving
    /\ ~vlast.done

(***************************************************************************)
(* Claims about the waiting loops                                          *)
(***************************************************************************)

\* The waiting loops under weak fairness: the process keeps taking steps.
SpecFetchLive == FetchInit /\ [][FetchNext]_vars /\ WF_vars(FetchNext)

\* C16: no step of the decision loop blocks for ever: the retry delay doubles from 1 up
\* to 60 and is 1 again after a success, the fill watch ends by its timeout, and also
\* while kline fetching keeps failing control comes back to the top of the outer loop
\* again and again.
C16_NeverBlocks ==
    /\ [](kbackoff \in {1, 2, 4, 8, 16, 32, backoff_cap})
    /\ [](kpc \in {"top", "housekeep", "po_watch"} => kbackoff = 1)
    /\ [](kpc = "po_watch" => kpolls <= PollTimeout)
    /\ []<>(kpc = "top")

(***************************************************************************)
(* Claims about the order flow trackers                                    *)
(***************************************************************************)

\* C17: after the add_trade calls of the metrics loop the bucket list is strictly
\* increasing in its second (so it has one bucket per second at most) and holds no
\* bucket older than window_sec before the newest one.
C17_BucketsOrdered ==
    /\ \A i, j \in DOMAIN fbuckets : i < j => fbuckets[i].t < fbuckets[j].t
    /\ \A i, j \in DOMAIN fbuckets : fbuckets[i].t >= fbuckets[j].t - window_sec

\* C18: after any on_trade calls at most one of seq_mkt_buys and seq_mkt_sells is
\* above 0, and a trade of another second than the one before starts both counts from
\* 0: after it only the trade itself is counted.
C18_CvdCounts ==
    /\ fcvd.seq_mkt_buys > 0 => fcvd.seq_mkt_sells = 0
    /\ fcvd.seq_mkt_sells > 0 => fcvd.seq_mkt_buys = 0
    /\ (fcall.made /\ fcall.new_sec) =>
          /\ fcvd.seq_mkt_buys = (IF fcall.delta > 0 THEN 1 ELSE 0)
          /\ fcvd.seq_mkt_sells = (IF fcall.delta < 0 THEN 1 ELSE 0)

\* C18 witness: buys had been counted in one second when a sell of another second
\* arrived.
C18_Witness ==
    /\ fcall.made
    /\ fcall.new_sec
    /\ fcall.delta < 0
    /\ fcall.buys_before > 0
    /\ fcvd.seq_mkt_sells = 1
    /\ fcvd.seq_mkt_buys = 0

(***************************************************************************)
(* Claims about the dynamic cooldown                                       *)
(***************************************************************************)

\* The ratio atr_short / atr_long of b is above that of a (both long medians above 0).
CRatioAbove(a, b) ==
    /\ a.atr_long > 0
    /\ b.atr_long > 0
    /\ b.atr_short * a.atr_long > a.atr_short * b.atr_long

\* C19: with base, floor and cap fixed, a higher ratio of the short to the long ATR
\* median gives a lower cooldown or the floor, a lower ratio gives a higher cooldown or
\* the cap, and the cooldown is within [floor, cap].
C19_CooldownMonotone ==
    (dprev.made /\ dlast.made) =>
       /\ CRatioAbove(dprev, dlast) =>
             \/ dlast.dyn_cd < dprev.dyn_cd
             \/ dlast.dyn_cd = cooldown_min_floor
       /\ CRatioAbove(dlast, dprev) =>
             \/ dlast.dyn_cd > dprev.dyn_cd
             \/ dlast.dyn_cd = cooldown_max_cap
       /\ dlast.dyn_cd \in cooldown_min_floor..cooldown_max_cap

(***************************************************************************)
(* Claims about the entry guards                                           *)
(***************************************************************************)

\* The mirror image of the inputs of a guard: price and the slow MA reflected around
\* SMA10, RSI around 50, MACD and OFI negated, the liquidation sides, the book sides and
\* the trade sides exchanged.
MirrorCtx(ctx) ==
    [ctx EXCEPT !.price = 2 * ctx.sma10 - ctx.price,
                !.sma50 = 2 * ctx.sma10 - ctx.sma50,
                !.rsi = 100 - ctx.rsi,
                !.macd = -ctx.macd,
                !.macd_sig = -ctx.macd_sig,
                !.ofi_z = -ctx.ofi_z,
                !.liq_short_usd = ctx.liq_long_usd,
                !.liq_long_usd = ctx.liq_short_usd]
MirrorTrades(trades) ==
    [i \in DOMAIN trades |->
        [trades[i] EXCEPT !.side = IF trades[i].side = "buy" THEN "sell" ELSE "buy"]]
MirrorBook(book) == [a |-> book.b, b |-> book.a]

\* The names of the mirrored trade list and of the mirrored book.
MirrorTape == [name \in TapeNames |->
                  CHOOSE m \in TapeNames : Tape(m) = MirrorTrades(Tape(name))]
MirrorBookName == [name \in BookNames |->
                      CHOOSE m \in BookNames :
                         WallPressure[m] = compute_wall_pressure(MirrorBook(Book(name)),
                                                                 S.ob_depth)]

\* C20: the long guard on an input and the short guard on the mirrored input take the
\* same allow/reject decision.
C20_MirrorSymmetry ==
    /\ gcall.side = "LONG" =>
          gres.ok = decide_entry_guard_short(MirrorTape[gcall.tape],
                                             MirrorBookName[gcall.book],
                                             MirrorCtx(gcall.ctx),
                                             GuardSettings(gcall)).ok
    /\ gcall.side = "SHORT" =>
          gres.ok = decide_entry_guard_long(MirrorTape[gcall.tape],
                                            MirrorBookName[gcall.book],
                                            MirrorCtx(gcall.ctx),
                                            GuardSettings(gcall)).ok

\* The bear regime and the long capitulation condition as the claims state them.
CBear(ctx) == ctx.sma10 < ctx.sma50 /\ ctx.macd < ctx.macd_sig
CCapitulationLong(ctx) ==
    ctx.ofi_z >= 20 /\ ctx.liq_short_usd >= 3 /\ ctx.oi_drop_pct <= -7

\* The absolute guard of the long side lets ctx through: price at or above
\* SMA10 - k * ATR and RSI at or above rsi_long_min.
CLongAbsolutePass(ctx) ==
    LET kg == calc_guard_buffer_k(classify_regime(ctx), ctx.atr, ctx.price)
    IN  /\ (ctx.sma10 - ctx.price) * 1000 * kg.den <= kg.num * ctx.atr
        /\ ctx.rsi >= S.rsi_long_min

CLongCalled == gcall.side = "LONG"
CShortCalled == gcall.side = "SHORT"

\* C21 as stated: in a bear regime the long guard allows only under the capitulation
\* condition, returns (True, "capitulation_long") whenever that condition holds, and
\* rejects otherwise.
C21_BearBlock ==
    (CLongCalled /\ CBear(gcall.ctx)) =>
       /\ gres.ok => CCapitulationLong(gcall.ctx)
       /\ CCapitulationLong(gcall.ctx) => (gres.ok /\ gres.why = "capitulation_long")
       /\ ~CCapitulationLong(gcall.ctx) => ~gres.ok

\* C21 amended: in a bear regime the long guard allows only under the capitulation
\* condition and then with the reason "capitulation_long"; it returns that whenever
\* the condition holds and the absolute guard (MA buffer and RSI floor) let the ctx
\* through; it rejects every other bear-regime ctx.
C21_BearBlockAfterAbsoluteGuard ==
    (CLongCalled /\ CBear(gcall.ctx)) =>
       /\ gres.ok => (CCapitulationLong(gcall.ctx) /\ gres.why = "capitulation_long")
       /\ (CCapitulationLong(gcall.ctx) /\ CLongAbsolutePass(gcall.ctx)) =>
             (gres.ok /\ gres.why = "capitulation_long")
       /\ ~(CCapitulationLong(gcall.ctx) /\ CLongAbsolutePass(gcall.ctx)) => ~gres.ok

\* C21 witness: a bear-regime ctx with the capitulation condition was allowed.
C21_Witness ==
    /\ CLongCalled
    /\ CBear(gcall.ctx)
    /\ CCapitulationLong(gcall.ctx)
    /\ gres.ok
    /\ gres.why = "capitulation_long"

\* The bull regime and the short capitulation condition as the claims state them.
CBull(ctx) == ctx.sma10 > ctx.sma50 /\ ctx.macd > ctx.macd_sig
CCapitulationShort(ctx) ==
    ctx.ofi_z <= -20 /\ ctx.liq_long_usd >= 3 /\ ctx.oi_drop_pct <= -7

\* C28: in a bull regime (SMA10 > SMA50 and MACD > signal) the short guard allows
\* only under the short capitulation condition.
C28_BullBlock ==
    (CShortCalled /\ CBull(gcall.ctx) /\ gres.ok) => CCapitulationShort(gcall.ctx)

\* What the claims about the stages of the guard speak of, for the stored call:
\* the regime, the distance from SMA10 on the entry side (ticks), the dynamic cap
\* (thousandths of ATR) and the three overrides of the pullback stage.
CRegime == classify_regime(gcall.ctx)
CDistance ==
    IF gcall.side = "LONG" THEN gcall.ctx.price - gcall.ctx.sma10
    ELSE gcall.ctx.sma10 - gcall.ctx.price
COfiExcess ==
    LET z == IF gcall.side = "LONG" THEN gcall.ctx.ofi_z ELSE -gcall.ctx.ofi_z
    IN  IF z >= S.ofi_z_boost_thr THEN z - S.ofi_z_boost_thr ELSE 0
CBonus == cap_bonus(CRegime, gcall.ctx.edge_votes, COfiExcess)
CBonusMax == IF CRegime = "range" THEN S.cap_bonus_range_max ELSE S.cap_bonus_neutral_max
CCapBase ==
    IF CRegime \in {"trend_up", "trend_down"} THEN S.entry_max_over_sma10_atr_trend
    ELSE IF CRegime = "range" THEN S.entry_max_over_sma10_atr_range
    ELSE S.entry_max_over_sma10_atr_neutral
CCapDyn == CCapBase + CBonus
CNotPulledBack == CDistance * 1000 > pullback_alpha(CRegime) * gcall.ctx.atr
CRegimeOk == should_allow_override(CRegime, gcall.side)
CStrongFlow ==
    LET fm == FlowShort[gcall.tape]
    IN  /\ CRegimeOk
        /\ IF gcall.side = "LONG"
           THEN /\ rate_at_least(fm, S.pullback_override_rateS)
                /\ fm.net_usd >= S.pullback_override_netS
           ELSE /\ abs_rate_at_least(fm, S.pullback_override_rateS)
                /\ fm.net_usd <= -S.pullback_override_netS
CMomentum ==
    /\ CRegimeOk
    /\ gcall.ctx.edge_votes >= S.momentum_votes_min
    /\ CDistance * 1000 <=
          (CCapDyn + (IF CRegime = "neutral" THEN S.momentum_extra_atr_neutral ELSE 0))
             * gcall.ctx.atr
CPivot ==
    LET ob == WallPressure[gcall.book]
    IN  /\ gcall.use_pivot_ob_override
        /\ CRegimeOk
        /\ CDistance * 1000 <= S.pivot_max_dist_atr * gcall.ctx.atr
        /\ gcall.ctx.edge_votes >= 2
        /\ IF gcall.side = "LONG"
           THEN /\ ob.num * 100 <= S.pivot_ob_max_ratio * ob.den
                /\ gcall.ctx.ofi_z >= S.pivot_min_ofi_z
           ELSE /\ ob.num * S.pivot_ob_max_ratio >= 100 * ob.den
                /\ gcall.ctx.ofi_z <= -S.pivot_min_ofi_z
CHasTag(tag) == \E i \in DOMAIN gres.relax : gres.relax[i] = tag

\* The call got as far as the pullback stage: neither the absolute guard nor the
\* regime block returned.
CPullbackStageReached ==
    /\ gcall.side \in {"LONG", "SHORT"}
    /\ gres.why \notin {"guard", "rsi", "bear", "capitulation_long"}

\* C29: at the pullback stage, under every configuration, a price that has not pulled
\* back to the target with none of the three overrides firing is rejected with the
\* waiting-for-pullback reason, and a stage passed through an override leaves that
\* override's relax tag in the returned reason.
C29_PullbackWait ==
    (CPullbackStageReached /\ CNotPulledBack) =>
       /\ (~CStrongFlow /\ ~CMomentum /\ ~CPivot) => (~gres.ok /\ gres.why = "pullback")
       /\ CStrongFlow => CHasTag("strong_flow_override")
       /\ (~CStrongFlow /\ CMomentum) => CHasTag("momentum_override")
       /\ (~CStrongFlow /\ ~CMomentum /\ CPivot) => CHasTag("pivot_ob_override")

\* C30: a guard that allows by any path other than capitulation has the distance from
\* SMA10 on the entry side at most (base cap of the regime + dynamic bonus) ATR, with
\* the bonus between 0 and the maximum of the regime, whichever override fired.
C30_HardCapHolds ==
    (gcall.side \in {"LONG", "SHORT"} /\ gres.ok /\ gres.why # "capitulation_long") =>
       /\ CDistance * 1000 <= (CCapBase + CBonus) * gcall.ctx.atr
       /\ CBonus >= 0
       /\ CBonus <= CBonusMax

\* C30 witness: an allow beyond the base cap, within the bonus, after the pullback
\* stage was passed through an override.
C30_Witness ==
    /\ gcall.side \in {"LONG", "SHORT"}
    /\ gres.ok
    /\ gres.why = "OK"
    /\ CNotPulledBack
    /\ CHasTag("strong_flow_override") \/ CHasTag("momentum_override")
          \/ CHasTag("pivot_ob_override")
    /\ CDistance * 1000 > CCapBase * gcall.ctx.atr
    /\ CBonus > 0

\* What a classify_regime call returned and wrote into its three metadata keys.
CRegimeOutcome(r) ==
    <<r.regime, r.ctx.mtf_align, r.ctx.strong_score_up, r.ctx.strong_score_down>>

\* C22: a classify_regime call on the ctx a classify_regime call has just written to
\* returns the same regime and writes the same mtf_align, strong_score_up and
\* strong_score_down.
C22_ClassifyIdempotent ==
    \A i \in 2..Len(rret) : CRegimeOutcome(rret[i]) = CRegimeOutcome(rret[i - 1])

\* C22 witness: a second call that went through the alignment and the scoring, on a
\* ctx whose first call had found a sudden move and an aligned up trend.
C22_Witness ==
    /\ Len(rret) = 2
    /\ rret[1].ctx.sudden_move
    /\ rret[2].regime = "trend_up"
    /\ rret[2].ctx.mtf_align = "up"
    /\ rret[2].ctx.strong_score_up >= 4

\* The sum of the sizes of the first n entries of a book side.
CFirstSizes(xs, n) ==
    LET m == IF n < Len(xs) THEN n ELSE Len(xs)
        upto[i \in 0..m] == IF i = 0 THEN 0 ELSE upto[i - 1] + xs[i][2]
    IN  upto[m]

COrderBookImbalanceCalled == ores.levels >= 0

\* C23: order_book_imbalance returns (first N bid sizes - first N ask sizes) / (their
\* total), a value in [-1, 1], and 0.0 when the total is 0 (so for two empty lists);
\* bid sizes 10, 5 and ask sizes 2, 3 with N = 2 give 0.5.
C23_ObiValue ==
    COrderBookImbalanceCalled =>
       LET b == CFirstSizes(obook.bids, ores.levels)
           a == CFirstSizes(obook.asks, ores.levels)
           r == ores.obi
       IN  /\ r.den > 0
           /\ -r.den <= r.num /\ r.num <= r.den
           /\ b + a = 0 => r.num = 0
           /\ b + a > 0 => r.num * (b + a) = (b - a) * r.den
           /\ (obook.bids = <<>> /\ obook.asks = <<>>) => r.num = 0
           /\ (/\ obook.bids = << <<100, 10>>, <<99, 5>> >>
               /\ obook.asks = << <<101, 2>>, <<102, 3>> >>
               /\ ores.levels = 2) => 2 * r.num = r.den

\* C23 witness: the book of the example, cut at one level, where the deeper levels
\* would have changed the value: (10 - 2) / (10 + 2).
C23_Witness ==
    /\ obook.bids = << <<100, 10>>, <<99, 5>> >>
    /\ obook.asks = << <<101, 2>>, <<102, 3>> >>
    /\ ores.levels = 1
    /\ ores.obi = [num |-> 8, den |-> 12]

\* The series ofi_zscore looks at and the window of it that the code selects.
CSeries == [i \in DOMAIN zbuckets |-> zbuckets[i].b - zbuckets[i].s]
CWindow == LastOf(CSeries, ofi_window(Len(CSeries)))

\* C24: ofi_zscore returns a value of absolute value at most z_clip, and exactly 0.0
\* with fewer than 5 buckets and with a MAD of the selected window below 1e-6, so
\* also when all per-second values are identical.
C24_OfiZscoreBounds ==
    zres.made =>
       /\ zres.z.den > 0
       /\ zres.z.num <= z_clip * zres.z.den
       /\ zres.z.num >= -z_clip * zres.z.den
       /\ Len(zbuckets) < 5 => zres.z.num = 0
       /\ (zbuckets # <<>> /\ mad4(CWindow) < mad_eps4) => zres.z.num = 0
       /\ (\A i, j \in DOMAIN CSeries : CSeries[i] = CSeries[j]) => zres.z.num = 0

\* C24 witness: a burst after quiet seconds, whose z-score was clipped to z_clip.
C24_Witness ==
    /\ zres.made
    /\ Len(zbuckets) >= 5
    /\ mad4(CWindow) >= mad_eps4
    /\ zres.z = [num |-> z_clip, den |-> 1]

\* The tick came to the cooldown check with the last entry less than the dynamic
\* cooldown ago.
CInCooldown ==
    /\ kres.outcome \in {"proceed", "cooldown"}
    /\ kin.since_entry >= 0
    /\ kin.since_entry < kin.dyn_cd

\* The three conditions of the cooldown override: strong flow (OFI z or consecutive
\* ticks over their threshold), the sign of OFI z agreeing with the signal side, and
\* ADX at or above cooldown_override_adx_min.
COverrideStrongFlow ==
    \/ Abs(kin.ofi_z) >= S.cooldown_override_ofi_z
    \/ kin.cons_buy >= S.cooldown_override_cons
    \/ kin.cons_sell >= S.cooldown_override_cons
COverrideDirection == kres.sig = (IF kin.ofi_z >= 0 THEN "LONG" ELSE "SHORT")
COverrideAdx == kin.adx_val >= S.cooldown_override_adx_min

\* C25: a tick inside the cooldown proceeds past the cooldown check only if strong
\* flow, direction consistency and the ADX floor all hold, and it does proceed when
\* they all hold.
C25_OverrideGating ==
    CInCooldown =>
       (kres.outcome = "proceed"
           <=> (COverrideStrongFlow /\ COverrideDirection /\ COverrideAdx))

\* The signed quantity of the trades of a list that _metrics_loop accepts.
CSignedSum(ds) ==
    LET upto[i \in 0..Len(ds)] ==
           IF i = 0 THEN 0
           ELSE upto[i - 1] + (IF ds[i].ts # 0 /\ ds[i].qty > 0
                               THEN (IF ds[i].side = "Buy" THEN ds[i].qty ELSE -ds[i].qty)
                               ELSE 0)
    IN  upto[Len(ds)]

\* C26: CVDTracker.value is the sum of +qty per received buy and -qty per received
\* sell, each trade counted once.  While the tape still holds every trade received,
\* the value is the signed sum of the trades received up to the last metrics tick,
\* a prefix of the tape.
C26_CvdCountsOnce ==
    Len(wtrades) < TapeKeep =>
       \E k \in 0..Len(wtrades) : fcvd.value = CSignedSum(SubSeq(wtrades, 1, k))

\* The number of vote conditions that hold on the values a snapshot carries.
CVotesOf(m) ==
    Cardinality({c \in {"obi", "ofi", "cvd", "liq", "doi"} :
        \/ c = "obi" /\ (m.obi >= OBI_THR \/ -m.obi >= OBI_THR)
        \/ c = "ofi" /\ (m.ofi_z >= OFI_Z_THR \/ -m.ofi_z >= OFI_Z_THR)
        \/ c = "cvd" /\ \/ (m.cvd_above_ema /\ m.seq_buys >= SEQ_MKT_TICKS)
                        \/ (~m.cvd_above_ema /\ m.seq_sells >= SEQ_MKT_TICKS)
        \/ c = "liq" /\ m.liq_cluster_ok = "True"
        \/ c = "doi" /\ m.doi_up_ok = "True"})

\* C27: the edge_votes of a published snapshot is in 0..5 and is the number of vote
\* conditions that hold on the values of that same snapshot.
C27_VotesMatchSnapshot ==
    vrounds > 0 =>
       /\ vmetrics.edge_votes \in 0..5
       /\ vmetrics.edge_votes = CVotesOf(vmetrics)

\* C31: whenever the regime of a guard call is trend_up or trend_down, the bonus the
\* guard adds to the cap is 0 and an allow that is not a capitulation has the
\* distance from SMA10 within entry_max_over_sma10_atr_trend ATR, whatever the votes
\* and the OFI z.
C31_TrendNoBonus ==
    (gcall.side \in {"LONG", "SHORT"} /\ CRegime \in {"trend_up", "trend_down"}) =>
       /\ CBonus = 0
       /\ (gres.ok /\ gres.why # "capitulation_long") =>
             CDistance * 1000 <= S.entry_max_over_sma10_atr_trend * gcall.ctx.atr

\* The allow of a trend regime beyond the cap of the trend regimes.
C31_AllowBeyondTrendCap ==
    /\ gcall.side \in {"LONG", "SHORT"}
    /\ CRegime \in {"trend_up", "trend_down"}
    /\ gres.ok
    /\ gres.why # "capitulation_long"
    /\ CDistance * 1000 > S.entry_max_over_sma10_atr_trend * gcall.ctx.atr

\* The flow metrics of the trade lists of the baseline over the short and the long
\* window, computed from the lists, and the four thresholds on the side of a guard.
CShortWindow ==
    [name \in BaselineTapes |->
        compute_flow_metrics(Tape(name), S.flow_window_short_sec)]
CLongWindow ==
    [name \in BaselineTapes |->
        compute_flow_metrics(Tape(name), S.flow_window_long_sec)]
CBaselineMet(side, fm) ==
    /\ fm.count >= S.flow_min_count
    /\ fm.consec >= S.flow_min_consec
    /\ IF side = "LONG"
       THEN /\ fm.imb_n * 100 >= S.flow_min_imbalance * fm.imb_d
            /\ fm.net_usd >= S.flow_min_net_usd
       ELSE /\ fm.imb_n * 100 <= -S.flow_min_imbalance * fm.imb_d
            /\ fm.net_usd <= -S.flow_min_net_usd
CGuardOk(side, tape) ==
    IF side = "LONG"
    THEN decide_entry_guard_long(tape, gcall.book, gcall.ctx, GuardSettings(gcall)).ok
    ELSE decide_entry_guard_short(tape, gcall.book, gcall.ctx, GuardSettings(gcall)).ok

\* C32: a guard that allows by any path other than capitulation, whichever overrides
\* fired, has the short-window count, consecutive count, imbalance and net USD of its
\* trade list at or beyond the four thresholds on the entry side; and the decision
\* is the same for every trade list with the same short-window metrics, whatever
\* its long-window metrics are.
C32_FlowBaselineGates ==
    gcall.side \in {"LONG", "SHORT"} =>
       /\ (gres.ok /\ gres.why # "capitulation_long") =>
             CBaselineMet(gcall.side, CShortWindow[gcall.tape])
       /\ \A other \in BaselineTapes :
             CShortWindow[other] = CShortWindow[gcall.tape] =>
                CGuardOk(gcall.side, other) = gres.ok

\* C32 witness: an allow through an override of the pullback stage on a trade list
\* whose long-window metrics miss the baseline.
C32_Witness ==
    /\ gcall.side \in {"LONG", "SHORT"}
    /\ gres.ok
    /\ gres.why = "OK"
    /\ Len(gres.relax) > 0
    /\ CBaselineMet(gcall.side, CShortWindow[gcall.tape])
    /\ ~CBaselineMet(gcall.side, CLongWindow[gcall.tape])

\* The tests the classifier's priority is stated with, on the input keys of a ctx:
\* the liquidity gate, the range test, the trend gate (mode OR) and the two
\* directions.
CLiquidityGate(c) == c.volume_24h_avg > 0 /\ c.volume * 10 < c.volume_24h_avg * 3
CRangeTest(c) ==
    /\ c.atr * 1000 <= S.atrp_range_max * c.price
    /\ Abs(c.sma10 - c.sma50) * 1000 <= S.sma_confluence_atr_k * c.atr
CTrendGate(c) == c.atr * 1000 >= S.atrp_trend_min * c.price \/ c.adx >= S.adx_trend_min
CFast5m(c) == IF c.ema9 = -1 THEN c.sma10 ELSE c.ema9
CAligned15m(c, up) ==
    /\ c.adx >= S.adx_5m_min
    /\ c.adx_15m >= S.adx_15m_min
    /\ IF up THEN CFast5m(c) > c.sma50 /\ c.ema9_15m > c.ema21_15m
       ELSE CFast5m(c) < c.sma50 /\ c.ema9_15m < c.ema21_15m
CUpDir(c) == (c.sma10 > c.sma50 /\ c.macd >= c.macd_sig) \/ CAligned15m(c, TRUE)
CDownDir(c) == (c.sma10 < c.sma50 /\ c.macd <= c.macd_sig) \/ CAligned15m(c, FALSE)

\* C33: every classify_regime call returns trend_up, trend_down, range or neutral; with
\* the liquidity gate (volume < 0.3 x the 24h average, average > 0) it returns neutral
\* and leaves mtf_align none and both strength scores 0, whatever the other inputs
\* and whatever an earlier call left in the ctx; otherwise with the range test it
\* returns range, also when the trend gate and a single direction hold; it returns
\* trend_up (trend_down) only with the trend gate and up_dir without down_dir
\* (down_dir without up_dir).
C33_RegimePriority ==
    \A i \in DOMAIN rret :
       LET r == rret[i]
           c == r.ctx
       IN  /\ r.regime \in {"trend_up", "trend_down", "range", "neutral"}
           /\ CLiquidityGate(c) =>
                 /\ r.regime = "neutral"
                 /\ c.mtf_align = "none"
                 /\ c.strong_score_up = 0
                 /\ c.strong_score_down = 0
           /\ (~CLiquidityGate(c) /\ CRangeTest(c)) => r.regime = "range"
           /\ r.regime = "trend_up" => (CTrendGate(c) /\ CUpDir(c) /\ ~CDownDir(c))
           /\ r.regime = "trend_down" => (CTrendGate(c) /\ CDownDir(c) /\ ~CUpDir(c))

\* C33 witness: a call that returned range on a ctx that has the trend gate and the
\* up direction alone, after a call on a ctx an earlier candle had left scores in.
C33_Witness ==
    /\ Len(rret) >= 1
    /\ rret[1].regime = "range"
    /\ CTrendGate(rret[1].ctx)
    /\ CUpDir(rret[1].ctx)
    /\ ~CDownDir(rret[1].ctx)
    /\ rret[1].ctx.low_liquidity

\* Reached as well: the liquidity gate closing on a ctx that passes the range test,
\* and both directions at once under the trend gate (returned neutral).
C33_GateOverRange ==
    /\ Len(rret) >= 1
    /\ CLiquidityGate(rret[1].ctx)
    /\ CRangeTest(rret[1].ctx)
C33_BothDirections ==
    /\ Len(rret) >= 1
    /\ ~CLiquidityGate(rret[1].ctx)
    /\ ~CRangeTest(rret[1].ctx)
    /\ CTrendGate(rret[1].ctx)
    /\ CUpDir(rret[1].ctx)
    /\ CDownDir(rret[1].ctx)
    /\ rret[1].regime = "neutral"

\* The account holds nothing on the side the last flip closed.
CFlipSideGone ==
    (nlast.from = "long" /\ nqex <= 0) \/ (nlast.from = "short" /\ nqex >= 0)

\* C34: a tick whose FLIP step 1 (the reduce-only close) failed has not run step 2;
\* and after a tick whose step 1 succeeded and whose step 2 failed, the local
\* positions list holds no position of the closed side that the exchange no longer
\* holds (the code has no retry of step 2, so the list must have been cleared).
C34_FlipCompensation ==
    /\ nlast.step1 = "fail" => nlast.step2 = "none"
    /\ (nlast.step1 = "ok" /\ nlast.step2 = "fail" /\ CFlipSideGone) =>
          \A i \in DOMAIN npos : npos[i].side # nlast.from

\* The first half alone: a failed step 1 is reached and step 2 did not run.
C34_Step1FailureStops ==
    /\ nlast.flip
    /\ nlast.step1 = "fail"
    /\ nlast.step2 = "none"

\* The local list holds a long and a short position.
CLongAndShort ==
    \E i \in DOMAIN npos : \E j \in DOMAIN npos :
       npos[i].side = "long" /\ npos[j].side = "short"

\* C37: with forbid_opposite_entry on, after any sequence of entry ticks, exits, fills
\* of resting orders, watchdog adoptions and reconciliations the positions list never
\* holds a long and a short position at the same time, whether flips are allowed or
\* not.
C37_NoConflictingPositions == ~CLongAndShort

\* The same under the default configuration (no flip, post-only entries).
C37_NoConflictWithoutFlip ==
    (~ncfg.allow_atomic_flip /\ ncfg.use_postonly_entries) => ~CLongAndShort

(***************************************************************************)
(* C35: margin stop and cond_entry                                          *)
(***************************************************************************)

\* the tick took the margin-stop branch, or neither branch (cond_entry false)
CEntriesStopped == lcur.gate \in {"margin_stop", "cond_false"}

\* C35: in a tick whose margin ratio is below margin_ratio_stop, or whose cond_entry
\* is false, no opening order (post-only or market) is submitted.
C35_NoOrderWhenStopped == CEntriesStopped => lorders = <<>>

\* C35, the margin stop alone: no opening order after the notice of the stop.
C35_NoOrderAfterMarginStop == lcur.gate = "margin_stop" => lorders = <<>>

\* C35, cond_entry alone: no opening order with a NaN indicator or a small ATR.
C35_NoOrderWithoutCondEntry == lcur.gate = "cond_false" => lorders = <<>>

\* C35: what the branch does decide is the signal: EdgeSignal is not asked, and the
\* tick goes on with sig = None, for which the entry guard of the long side runs.
C35_StoppedTickHasNoSignal == CEntriesStopped => lcur.sig = "NONE"

(***************************************************************************)
(* C36: no duplicate close within one tick                                  *)
(***************************************************************************)

\* the loop body is through with a position that TP_ALL or CUT has closed in full
CFullEarlyClose == clast.done /\ clast.act \in {"TP_ALL", "CUT"} /\ clast.early = "ok"

\* C36: after an Exit Engine TP_ALL or CUT has fully closed a position, neither the
\* take-profit check nor the stop-loss check submits another close order for it in
\* the tick, and its realized PnL and win/loss counters are updated once.
C36_NoDuplicateClose ==
    CFullEarlyClose => clast.tp = "none" /\ clast.sl = "none" /\ clast.pnl = 1

\* C36, the stop-loss half: the stop-loss check looks at the closed flag.
C36_StopCheckSkipsClosed == CFullEarlyClose => clast.sl = "none"

\* C36: the take-profit check closes the total quantity a second time and the PnL
\* is counted twice.
C36_SecondCloseCounted ==
    CFullEarlyClose /\ clast.tp = "ok" /\ clast.qty_post = clast.qty_pre /\ clast.pnl = 2

(***************************************************************************)
(* C38: the SL grace and a stop that stays breached                         *)
(***************************************************************************)

\* The exit section on breached candles under weak fairness: ticks keep coming.
SpecGraceLive == GraceInit /\ [][GraceNext]_vars /\ WF_vars(GraceNext)

\* C38: when the stop of a position is breached on every handled tick and close
\* orders succeed, the position is eventually closed by the stop-loss: the grace
\* is not renewed tick after tick without bound.
C38_StopNotPostponedForever == (cpositions # <<>>) ~> (cpositions = <<>>)

\* C38: the grace is granted on a candle that closes beyond the stop, and the
\* stop-loss check of the tick is held back.
C38_GraceBeyondStop ==
    /\ clast.done /\ clast.act = "SL_GRACE" /\ clast.sl = "none" /\ clast.kept
    /\ \E i \in DOMAIN cpositions :
          IF cpositions[i].side = "long" THEN ccandle.c < cpositions[i].sl_price
                                        ELSE ccandle.c > cpositions[i].sl_price

\* C38: without a new grace the breached stop closes the position in the tick; a
\* grace of an earlier tick has run out by then.
C38_NoGraceNoDelay == (clast.done /\ clast.act # "SL_GRACE") => clast.sl = "ok" /\ ~clast.kept

(***************************************************************************)
(* C39: the neutral-regime trade limit is per hour                          *)
(***************************************************************************)

\* The trade limit with the process taking steps for ever.
SpecHourLive == HourInit /\ [][HourNext]_vars /\ WF_vars(HourNext)

\* the limit blocks neutral entries and the hour since last_neutral_reset is over
CLimitOverdue ==
    hpc = "run" /\ hstate.neutral_trade_count >= neutral_limit /\ hstate.age = "due"

\* C39: while the loop is running, neutral_trade_count is reset to 0 once an hour
\* has passed since last_neutral_reset, so that neutral entries blocked by the limit
\* are permitted again without a restart of the process.
C39_NeutralLimitLifts ==
    CLimitOverdue ~> (hstate.neutral_trade_count < neutral_limit \/ hpc = "down")

\* C39 as a state property: no running tick is blocked by the limit more than an
\* hour after last_neutral_reset.
C39_NoBlockAfterAnHour ==
    (hpc = "run" /\ hlast.outcome = "blocked") => hstate.age = "fresh"

\* C39: the reset that does exist: the start of run_loop leaves no overdue count.
C39_ResetAtStartup ==
    [][hpc = "down" /\ hpc' = "run" /\ hstate.age = "due"
          => hstate'.neutral_trade_count = 0 /\ hstate'.age = "fresh"]_vars

(***************************************************************************)
(* C40: the stop only tightens, the quantity only decreases                 *)
(***************************************************************************)

====
